---- MODULE Spec2Model ----
(***************************************************************************)
(* Document vector-store cache and retrieval layer of PVEDI_JOGO1.         *)
(*                                                                         *)
(* The repository holds two generations of the application:               *)
(*   - PREVIOUSPROJECTATTEMPT/ : VectorstoreManager + BlobStorageClient,   *)
(*     served by PREVIOUSPROJECTATTEMPT/app.py (ask, ask_stream);          *)
(*   - the current app        : SearchService + BlobService, served by     *)
(*     app.py (ask_stream.generate).                                       *)
(* Both are modelled.  SpecManager runs request threads through            *)
(* VectorstoreManager.get_vectorstore, SpecSearch runs them through        *)
(* SearchService.search; the steps of a thread are split at the blocking   *)
(* I/O calls (listing, download, file write, index load).                  *)
(* SpecAskStream and SpecGenerate follow one answer request through the    *)
(* previous and the current ask_stream, SpecAnswer through either;         *)
(* SpecPdf follows a serve_pdf request, and SpecNames applies the two      *)
(* local-directory computations to pairs of doc_id strings.                *)
(* SpecCatalog builds the catalog with build_doc_index_from_blob behind    *)
(* get_doc_index, SpecHierarchy with BlobService.list_blobs_hierarchy, and *)
(* SpecAuth passes one request through the wrapper of domain_required.     *)
(* SpecLogin takes one browser session through login, callback and logout, *)
(* and SpecAsk puts one question to ask_stream and to ask.                 *)
(***************************************************************************)
EXTENDS Integers, Sequences, FiniteSets, TLC

\* ------------------------------------------------------------------ bounds
\* Number of requests one serving thread handles in a run.
MaxCalls == 2

\* Retrieved chunks per query (the retriever's fan-out k is 4 / 5 in the code).
MaxChunks == 2
\* Largest page number in chunk metadata or chunk text.
MaxPage == 2
\* Fragments the chat model streams for one answer.
MaxFrags == 2
\* Characters in the doc_path of a PDF request.
MaxPathLen == 4
\* Characters in a doc_id string handed to the local-directory computation.
MaxIdLen == 4
\* Blobs in the container a catalog is built from.
MaxKeys == 3
\* Logins started in a run (state tokens handed out).
MaxLogins == 2

\* ------------------------------------------------------------- fixed sets
\* Serving threads of the WSGI server.
Threads == {"t1", "t2"}

\* Document ids, as sequences of characters ("A/x", "A/y").
DocX == <<"A", "/", "x">>
DocY == <<"A", "/", "y">>
Docs == {DocX, DocY}

\* The two files FAISS.save_local() writes, in the order the container lists them.
IndexFile == "index.faiss"
PklFile == "index.pkl"
ArtifactOrder == <<IndexFile, PklFile>>
Artifacts == {IndexFile, PklFile}

\* Content of a blob in the object store / of a file on the local disk.
\* "corrupt" is a complete copy of an unreadable blob, "partial" a file that was
\* opened for writing ("wb" truncates) and not completely written.
BlobStates == {"absent", "good", "corrupt"}
FileStates == {"absent", "partial", "good", "corrupt"}

\* ------------------------------------------------------- pure functions
RECURSIVE ReplaceAll(_, _, _)
\* str.replace(c, r) on a sequence of characters; r is a sequence.
ReplaceAll(s, c, r) ==
    IF s = <<>> THEN <<>>
    ELSE (IF Head(s) = c THEN r ELSE <<Head(s)>>) \o ReplaceAll(Tail(s), c, r)

\* VectorstoreManager._local_dir_for_doc: doc_id.replace("\\", "/").replace("/", "__")
LocalDirForDoc(d) == ReplaceAll(ReplaceAll(d, "\\", <<"/">>), "/", <<"_", "_">>)

\* SearchService.search: doc_id.replace('/', '_').replace('\\', '_')
SafeDocId(d) == ReplaceAll(ReplaceAll(d, "/", <<"_">>), "\\", <<"_">>)

Dirs == {LocalDirForDoc(d) : d \in Docs} \cup {SafeDocId(d) : d \in Docs}

VARIABLES
    store,      \* object store: [Docs -> [Artifacts -> BlobStates]]
    disk,       \* local cache files: [Dirs -> [Artifacts -> FileStates]]
    dirs,       \* local cache directories that exist
    memCache,   \* VectorstoreManager._mem_cache: [Docs -> index object id, 0 = no entry]
    nextId,     \* identity of the next index object FAISS.load_local constructs
    pc,         \* position of each thread inside its request
    doc,        \* doc_id of the thread's current (or last) request
    todo,       \* blobs of the listing the thread has still to handle
    got,        \* downloaded_files of the thread's download pass
    vs,         \* index object the thread holds (0 = none)
    outcome,    \* how the thread's last request ended
    ret,        \* index object the thread's last get_vectorstore returned (0 = none)
    calls,      \* requests started by each thread
    ndl,        \* blob downloads the thread's current request has started
    after,      \* the request began after an ensure_local of its doc had completed
    ensured,    \* docs whose local copy some request has found or made without failing
    nLoaded,    \* per doc: successful FAISS.load_local calls so far
    overlap,    \* some request has started while another one was still running
    spc,        \* position of the answer request / of its response generator
    chunks,     \* chunks the index returns for the request's query, best match first
    pages,      \* pages computed for the metadata record
    firstPage,  \* first_page_for_viewer
    frags,      \* fragments the chat model has still to stream
    out,        \* records the response stream has emitted so far
    status,     \* HTTP outcome of the request
    llmCalls,   \* invocations of the chat model for the request
    req,        \* the answer request: doc_id present, question, id in catalog, and
                \* whether get_vectorstore returned an index for it
    ppc,        \* position of the serve_pdf request
    path,       \* doc_path of the serve_pdf request
    pstatus,    \* HTTP outcome of the serve_pdf request
    storeOps,   \* object-store operations serve_pdf has issued, in order
    idA,        \* a doc_id string handed to the local-directory computation
    idB,        \* another doc_id string
    dirA,       \* directory name computed for idA
    dirB,       \* directory name computed for idB
    impl,       \* which computation produced dirA, dirB
    container,  \* blob names of the container, in the order list_blobs yields them
    catCache,   \* lru_cache of get_doc_index: the cached catalog, if any
    cpc,        \* position of each thread inside a catalog build
    ctodo,      \* blob names the thread's listing has still to yield
    cidx,       \* the catalog the thread's build is filling (a local of the build)
    cseen,      \* the catalog the thread's last build call returned to its caller
    presented,  \* the session a request for a protected route arrived with
    session,    \* the session as the wrapper leaves it
    apc,        \* position of the protected request
    handlerRan, \* the wrapped handler was run for the request
    aresp,      \* HTTP outcome of the protected request
    issued,     \* number of state tokens new_state_token has handed to login
    lastCb,     \* the last callback request: its query and the session it found
    spent,      \* states that callbacks have carried since the last login
    lresp,      \* outcome of the last request to an /auth route
    info,       \* the catalog entry get_doc_info has for the asked document
    rendered,   \* what ask has handed to the result template
    astatus     \* HTTP outcome of the ask request

cacheVars == <<store, disk, dirs, memCache, nextId, ensured, nLoaded>>
requestVars == <<store, disk, dirs, memCache, nextId, pc, doc, todo, got, vs, outcome,
                 ret, calls, ndl, after, ensured, nLoaded, overlap>>
streamVars == <<spc, chunks, pages, firstPage, frags, out, status, llmCalls, req>>
pdfVars == <<ppc, path, pstatus, storeOps>>
nameVars == <<idA, idB, dirA, dirB, impl>>
catVars == <<container, catCache, cpc, ctodo, cidx, cseen>>
loginVars == <<issued, lastCb, spent, lresp>>
authVars == <<presented, session, apc, handlerRan, aresp, loginVars>>
askVars == <<info, rendered, astatus>>
vars == <<store, disk, dirs, memCache, nextId, pc, doc, todo, got, vs, outcome, ret,
          calls, ndl, after, ensured, nLoaded, overlap,
          spc, chunks, pages, firstPage, frags, out, status, llmCalls, req,
          ppc, path, pstatus, storeOps, idA, idB, dirA, dirB, impl,
          container, catCache, cpc, ctodo, cidx, cseen,
          presented, session, apc, handlerRan, aresp, issued, lastCb, spent, lresp,
          info, rendered, astatus>>

\* Contents of one document's prefix in the object store that the runs start from.
StoreContents ==
    { [f \in Artifacts |-> "good"],
      [f \in Artifacts |-> IF f = IndexFile THEN "good" ELSE "absent"],
      [f \in Artifacts |-> IF f = IndexFile THEN "good" ELSE "corrupt"],
      [f \in Artifacts |-> "absent"] }

\* req before any answer request has been received.
NoRequest ==
    [received |-> FALSE, hasDoc |-> FALSE, question |-> <<>>, known |-> FALSE, vsOk |-> FALSE]

\* No answer request has been received.
StreamStart ==
    /\ spc = "idle"
    /\ chunks = <<>>
    /\ pages = <<>>
    /\ firstPage = 1
    /\ frags = <<>>
    /\ out = <<>>
    /\ status = "none"
    /\ llmCalls = 0
    /\ req = NoRequest

\* No PDF has been asked for.
PdfStart ==
    /\ ppc = "idle"
    /\ path = <<>>
    /\ pstatus = "none"
    /\ storeOps = <<>>

\* A catalog that holds nothing / that was never built.
EmptyIndex == <<>>
NoCatalog == [built |-> FALSE, idx |-> EmptyIndex]

\* No catalog has been built or asked for.
CatStart ==
    /\ catCache = NoCatalog
    /\ cpc = [t \in Threads |-> "idle"]
    /\ ctodo = [t \in Threads |-> <<>>]
    /\ cidx = [t \in Threads |-> EmptyIndex]
    /\ cseen = [t \in Threads |-> NoCatalog]

\* A claim that is missing or is no string; claims that hold no identifier.
NotAString == [isStr |-> FALSE, s |-> <<>>]
NoClaims == [preferred_username |-> NotAString, email |-> NotAString, upn |-> NotAString]
\* The session after session.clear(): no user (the claims of session["user"]
\* are kept beside it), no auth_state (0), no post_login_redirect.
NoSession == [user |-> "absent", hasClaims |-> FALSE,
              preferred_username |-> NotAString, email |-> NotAString, upn |-> NotAString,
              auth_state |-> 0, post_login_redirect |-> FALSE]
\* No callback has been received.
NoCallback == [received |-> 0, code |-> FALSE, result |-> "none", claims |-> NoClaims,
               expected |-> 0, spent |-> {}, hadUser |-> FALSE]

\* No protected route has been requested.
AuthStart ==
    /\ apc = "idle"
    /\ handlerRan = FALSE
    /\ aresp = "none"
    /\ session = presented
    /\ issued = 0
    /\ lastCb = NoCallback
    /\ spent = {}
    /\ lresp = "none"

\* The catalog entry of the document A/0/x; nothing has been rendered.
KnownDocInfo ==
    [id |-> <<"A", "/", "0", "/", "x">>, label |-> <<"x">>, year |-> <<"0">>,
     pdf_rel_path |-> <<"A", "/", "0", "/", "x", ".pdf">>,
     vs_rel_path |-> <<"A", "/", "0", "/", "x">>]
NoRender == [pages |-> <<>>, first_page |-> 0, pdf_url |-> <<>>, doc_label |-> <<>>]

\* No ask request has been received.
AskStart ==
    /\ rendered = NoRender
    /\ astatus = "none"

\* No local directory has been computed.
NameStart ==
    /\ dirA = <<>>
    /\ dirB = <<>>
    /\ impl = "none"

\* __post_init__: empty in-memory cache, cache root created, nothing downloaded.
CacheStart ==
    /\ disk = [dir \in Dirs |-> [f \in Artifacts |-> "absent"]]
    /\ dirs = {}
    /\ memCache = [d \in Docs |-> 0]
    /\ nextId = 1
    /\ pc = [t \in Threads |-> "idle"]
    /\ doc = [t \in Threads |-> DocX]
    /\ todo = [t \in Threads |-> <<>>]
    /\ got = [t \in Threads |-> 0]
    /\ vs = [t \in Threads |-> 0]
    /\ outcome = [t \in Threads |-> "none"]
    /\ ret = [t \in Threads |-> 0]
    /\ calls = [t \in Threads |-> 0]
    /\ ndl = [t \in Threads |-> 0]
    /\ after = [t \in Threads |-> FALSE]
    /\ ensured = {}
    /\ nLoaded = [d \in Docs |-> 0]
    /\ overlap = FALSE

\* The object store holds any of StoreContents under each document's prefix.
InitCache ==
    /\ store \in [Docs -> StoreContents]
    /\ CacheStart
    /\ StreamStart
    /\ PdfStart
    /\ CatStart
    /\ container = <<>>
    /\ presented = NoSession
    /\ AuthStart
    /\ info = KnownDocInfo
    /\ AskStart
    /\ NameStart
    /\ idA = DocX
    /\ idB = DocY

\* ---------------------------------------------------------------- helpers
\* list_blobs(prefix): the names under the document's prefix, in listing order.
ListBlobs(d) == SelectSeq(ArtifactOrder, LAMBDA f : store[d][f] # "absent")

\* VectorstoreManager._is_cached_on_disk: both files exist.
IsCachedOnDisk(dir) ==
    /\ disk[dir][IndexFile] # "absent"
    /\ disk[dir][PklFile] # "absent"

\* FAISS.load_local reads index.faiss and unpickles index.pkl: it succeeds when
\* both are complete copies of readable blobs.
LoadLocalOk(dir) == \A f \in Artifacts : disk[dir][f] = "good"

\* The exception FAISS.load_local raises otherwise.
LoadError(dir) ==
    IF \E f \in Artifacts : disk[dir][f] = "absent" THEN "raised_nofile"
    ELSE "raised_corrupt"

\* A request ends: the thread is idle again.
Finish(t, how, r) ==
    /\ pc' = [pc EXCEPT ![t] = "idle"]
    /\ outcome' = [outcome EXCEPT ![t] = how]
    /\ ret' = [ret EXCEPT ![t] = r]
    /\ vs' = [vs EXCEPT ![t] = 0]
    /\ todo' = [todo EXCEPT ![t] = <<>>]

\* ------------------------------------------- VectorstoreManager (previous)
\* A request reaches get_vectorstore(doc_id) (app.get_vectorstore).
GV_Call(t, d) ==
    /\ pc[t] = "idle"
    /\ calls[t] < MaxCalls
    /\ calls' = [calls EXCEPT ![t] = @ + 1]
    /\ pc' = [pc EXCEPT ![t] = "gv_mem"]
    /\ doc' = [doc EXCEPT ![t] = d]
    /\ outcome' = [outcome EXCEPT ![t] = "running"]
    /\ ret' = [ret EXCEPT ![t] = 0]
    /\ ndl' = [ndl EXCEPT ![t] = 0]
    /\ got' = [got EXCEPT ![t] = 0]
    /\ after' = [after EXCEPT ![t] = d \in ensured]
    /\ overlap' = (overlap \/ \E u \in Threads : pc[u] # "idle")
    /\ UNCHANGED <<todo, vs, cacheVars>>
    /\ UNCHANGED <<streamVars, pdfVars, nameVars, catVars, authVars, askVars>>

\* get_vectorstore behind one manager-wide lock: the call goes on only while no
\* other call is past its own cache test.
GV_MemCheckLocked(t) ==
    /\ pc[t] = "gv_mem"
    /\ \A u \in Threads \ {t} : pc[u] \in {"idle", "gv_mem"}
    /\ IF memCache[doc[t]] # 0
       THEN Finish(t, "ok", memCache[doc[t]])
       ELSE /\ pc' = [pc EXCEPT ![t] = "gv_disk"]
            /\ UNCHANGED <<outcome, ret, vs, todo>>
    /\ UNCHANGED <<overlap, doc, got, calls, ndl, after, cacheVars>>
    /\ UNCHANGED <<streamVars, pdfVars, nameVars, catVars, authVars, askVars>>

\* if doc_id in self._mem_cache: return self._mem_cache[doc_id]
GV_MemCheck(t) ==
    /\ pc[t] = "gv_mem"
    /\ IF memCache[doc[t]] # 0
       THEN Finish(t, "ok", memCache[doc[t]])
       ELSE /\ pc' = [pc EXCEPT ![t] = "gv_disk"]
            /\ UNCHANGED <<outcome, ret, vs, todo>>
    /\ UNCHANGED <<overlap, doc, got, calls, ndl, after, cacheVars>>
    /\ UNCHANGED <<streamVars, pdfVars, nameVars, catVars, authVars, askVars>>

\* if not self._is_cached_on_disk(local_dir): download_prefix(...)
GV_DiskCheck(t) ==
    /\ pc[t] = "gv_disk"
    /\ IF IsCachedOnDisk(LocalDirForDoc(doc[t]))
       THEN /\ pc' = [pc EXCEPT ![t] = "gv_load"]
            /\ ensured' = ensured \cup {doc[t]}
       ELSE /\ pc' = [pc EXCEPT ![t] = "dp_list"]
            /\ UNCHANGED ensured
    /\ UNCHANGED <<overlap, doc, todo, got, vs, outcome, ret, calls, ndl, after,
                   store, disk, dirs, memCache, nextId, nLoaded>>
    /\ UNCHANGED <<streamVars, pdfVars, nameVars, catVars, authVars, askVars>>

\* download_prefix: local_dir.mkdir(...); for blob_name in self.list_blobs(prefix)
DP_List(t) ==
    /\ pc[t] = "dp_list"
    /\ dirs' = dirs \cup {LocalDirForDoc(doc[t])}
    /\ todo' = [todo EXCEPT ![t] = ListBlobs(doc[t])]
    /\ pc' = [pc EXCEPT ![t] = "dp_next"]
    /\ UNCHANGED <<overlap, doc, got, vs, outcome, ret, calls, ndl, after,
                   store, disk, memCache, nextId, ensured, nLoaded>>
    /\ UNCHANGED <<streamVars, pdfVars, nameVars, catVars, authVars, askVars>>

\* download_blob_to_file up to `with local_path.open("wb")`: the download stream
\* is opened, then the local file is truncated.  With nothing left to download,
\* download_prefix returns.
DP_Next(t) ==
    /\ pc[t] = "dp_next"
    /\ IF todo[t] = <<>>
       THEN /\ pc' = [pc EXCEPT ![t] = "gv_load"]
            /\ ensured' = IF got[t] > 0 THEN ensured \cup {doc[t]} ELSE ensured
            /\ UNCHANGED <<disk, ndl>>
       ELSE /\ disk' = [disk EXCEPT ![LocalDirForDoc(doc[t])][Head(todo[t])] = "partial"]
            /\ ndl' = [ndl EXCEPT ![t] = @ + 1]
            /\ pc' = [pc EXCEPT ![t] = "dp_write"]
            /\ UNCHANGED ensured
    /\ UNCHANGED <<overlap, doc, todo, got, vs, outcome, ret, calls, after,
                   store, dirs, memCache, nextId, nLoaded>>
    /\ UNCHANGED <<streamVars, pdfVars, nameVars, catVars, authVars, askVars>>

\* blob.download_blob() raises (network error) before the file is opened.
DP_OpenFail(t) ==
    /\ pc[t] = "dp_next"
    /\ todo[t] # <<>>
    /\ Finish(t, "raised_download", 0)
    /\ UNCHANGED <<overlap, doc, got, calls, ndl, after, cacheVars>>
    /\ UNCHANGED <<streamVars, pdfVars, nameVars, catVars, authVars, askVars>>

\* stream.readinto(f) completes: the file is a full copy of the blob.
DP_Write(t) ==
    /\ pc[t] = "dp_write"
    /\ disk' = [disk EXCEPT ![LocalDirForDoc(doc[t])][Head(todo[t])] =
                                    store[doc[t]][Head(todo[t])]]
    /\ todo' = [todo EXCEPT ![t] = Tail(@)]
    /\ got' = [got EXCEPT ![t] = @ + 1]
    /\ pc' = [pc EXCEPT ![t] = "dp_next"]
    /\ UNCHANGED <<overlap, doc, vs, outcome, ret, calls, ndl, after,
                   store, dirs, memCache, nextId, ensured, nLoaded>>
    /\ UNCHANGED <<streamVars, pdfVars, nameVars, catVars, authVars, askVars>>

\* stream.readinto(f) is aborted part-way: the exception leaves get_vectorstore,
\* the half-written file stays.
DP_WriteFail(t) ==
    /\ pc[t] = "dp_write"
    /\ Finish(t, "raised_download", 0)
    /\ UNCHANGED <<overlap, doc, got, calls, ndl, after, cacheVars>>
    /\ UNCHANGED <<streamVars, pdfVars, nameVars, catVars, authVars, askVars>>

\* A load that leaves an entry for the document in the cache when it fails.
GV_LoadCachesFailure(t) ==
    /\ pc[t] = "gv_load"
    /\ IF LoadLocalOk(LocalDirForDoc(doc[t]))
       THEN /\ vs' = [vs EXCEPT ![t] = nextId]
            /\ nextId' = nextId + 1
            /\ nLoaded' = [nLoaded EXCEPT ![doc[t]] = @ + 1]
            /\ pc' = [pc EXCEPT ![t] = "gv_store"]
            /\ UNCHANGED <<outcome, ret, todo, memCache>>
       ELSE /\ Finish(t, LoadError(LocalDirForDoc(doc[t])), 0)
            /\ memCache' = [memCache EXCEPT ![doc[t]] = nextId]
            /\ nextId' = nextId + 1
            /\ UNCHANGED nLoaded
    /\ UNCHANGED <<overlap, doc, got, calls, ndl, after, store, disk, dirs, ensured>>
    /\ UNCHANGED <<streamVars, pdfVars, nameVars, catVars, authVars, askVars>>

\* vs = FAISS.load_local(str(local_dir), ...): raises on a missing or unreadable file.
GV_Load(t) ==
    /\ pc[t] = "gv_load"
    /\ IF LoadLocalOk(LocalDirForDoc(doc[t]))
       THEN /\ vs' = [vs EXCEPT ![t] = nextId]
            /\ nextId' = nextId + 1
            /\ nLoaded' = [nLoaded EXCEPT ![doc[t]] = @ + 1]
            /\ pc' = [pc EXCEPT ![t] = "gv_store"]
            /\ UNCHANGED <<outcome, ret, todo>>
       ELSE /\ Finish(t, LoadError(LocalDirForDoc(doc[t])), 0)
            /\ UNCHANGED <<nextId, nLoaded>>
    /\ UNCHANGED <<overlap, doc, got, calls, ndl, after, store, disk, dirs, memCache, ensured>>
    /\ UNCHANGED <<streamVars, pdfVars, nameVars, catVars, authVars, askVars>>

\* self._mem_cache[doc_id] = vs; return vs
GV_Store(t) ==
    /\ pc[t] = "gv_store"
    /\ memCache' = [memCache EXCEPT ![doc[t]] = vs[t]]
    /\ Finish(t, "ok", vs[t])
    /\ UNCHANGED <<overlap, doc, got, calls, ndl, after, store, disk, dirs, nextId, ensured, nLoaded>>
    /\ UNCHANGED <<streamVars, pdfVars, nameVars, catVars, authVars, askVars>>

NextManager ==
    \E t \in Threads :
        \/ \E d \in Docs : GV_Call(t, d)
        \/ GV_MemCheck(t)
        \/ GV_DiskCheck(t)
        \/ DP_List(t)
        \/ DP_Next(t)
        \/ DP_OpenFail(t)
        \/ DP_Write(t)
        \/ DP_WriteFail(t)
        \/ GV_Load(t)
        \/ GV_Store(t)

SpecManager == InitCache /\ [][NextManager]_vars

\* ------------------------------------------------ SearchService (current)
\* A request reaches search_service.search(doc_id, question) (app.generate).
S_Call(t, d) ==
    /\ pc[t] = "idle"
    /\ calls[t] < MaxCalls
    /\ calls' = [calls EXCEPT ![t] = @ + 1]
    /\ pc' = [pc EXCEPT ![t] = "s_check"]
    /\ doc' = [doc EXCEPT ![t] = d]
    /\ outcome' = [outcome EXCEPT ![t] = "running"]
    /\ ret' = [ret EXCEPT ![t] = 0]
    /\ ndl' = [ndl EXCEPT ![t] = 0]
    /\ got' = [got EXCEPT ![t] = 0]
    /\ after' = [after EXCEPT ![t] = d \in ensured]
    /\ overlap' = (overlap \/ \E u \in Threads : pc[u] # "idle")
    /\ UNCHANGED <<todo, vs, cacheVars>>
    /\ UNCHANGED <<streamVars, pdfVars, nameVars, catVars, authVars, askVars>>

\* os.listdir(target_dir): the names of the files in the directory.
ListDir(dir) == {f \in Artifacts : disk[dir][f] # "absent"}

\* not os.path.exists(target_dir) or not os.listdir(target_dir)
IndexNotFoundLocally(dir) == dir \notin dirs \/ ListDir(dir) = {}

\* if not os.path.exists(target_dir) or not os.listdir(target_dir): download ...
S_Check(t) ==
    /\ pc[t] = "s_check"
    /\ IF IndexNotFoundLocally(SafeDocId(doc[t]))
       THEN /\ pc' = [pc EXCEPT ![t] = "dvs_list"]
            /\ UNCHANGED ensured
       ELSE /\ pc' = [pc EXCEPT ![t] = "s_load"]
            /\ ensured' = ensured \cup {doc[t]}
    /\ UNCHANGED <<overlap, doc, todo, got, vs, outcome, ret, calls, ndl, after,
                   store, disk, dirs, memCache, nextId, nLoaded>>
    /\ UNCHANGED <<streamVars, pdfVars, nameVars, catVars, authVars, askVars>>

\* download_vector_store: list_blobs(name_starts_with=prefix); os.makedirs(local_dir)
DVS_List(t) ==
    /\ pc[t] = "dvs_list"
    /\ dirs' = dirs \cup {SafeDocId(doc[t])}
    /\ todo' = [todo EXCEPT ![t] = ListBlobs(doc[t])]
    /\ pc' = [pc EXCEPT ![t] = "dvs_next"]
    /\ UNCHANGED <<overlap, doc, got, vs, outcome, ret, calls, ndl, after,
                   store, disk, memCache, nextId, ensured, nLoaded>>
    /\ UNCHANGED <<streamVars, pdfVars, nameVars, catVars, authVars, askVars>>

\* One turn of `for blob in blobs`: a file that exists is skipped and appended to
\* downloaded_files, a missing one is opened with "wb".  After the loop search
\* returns [] when downloaded_files is empty.
DVS_Next(t) ==
    /\ pc[t] = "dvs_next"
    /\ IF todo[t] = <<>>
       THEN /\ IF got[t] = 0
               THEN Finish(t, "empty", 0)
               ELSE /\ pc' = [pc EXCEPT ![t] = "s_load"]
                    /\ UNCHANGED <<outcome, ret, vs, todo>>
            /\ ensured' = IF got[t] > 0 THEN ensured \cup {doc[t]} ELSE ensured
            /\ UNCHANGED <<disk, ndl, got>>
       ELSE IF disk[SafeDocId(doc[t])][Head(todo[t])] # "absent"
       THEN /\ got' = [got EXCEPT ![t] = @ + 1]
            /\ todo' = [todo EXCEPT ![t] = Tail(@)]
            /\ UNCHANGED <<pc, outcome, ret, vs, disk, ndl, ensured>>
       ELSE /\ disk' = [disk EXCEPT ![SafeDocId(doc[t])][Head(todo[t])] = "partial"]
            /\ ndl' = [ndl EXCEPT ![t] = @ + 1]
            /\ pc' = [pc EXCEPT ![t] = "dvs_write"]
            /\ UNCHANGED <<outcome, ret, vs, todo, got, ensured>>
    /\ UNCHANGED <<overlap, doc, calls, after, store, dirs, memCache, nextId, nLoaded>>
    /\ UNCHANGED <<streamVars, pdfVars, nameVars, catVars, authVars, askVars>>

\* my_blob.write(download_stream.readall()); downloaded_files.append(download_path)
DVS_Write(t) ==
    /\ pc[t] = "dvs_write"
    /\ disk' = [disk EXCEPT ![SafeDocId(doc[t])][Head(todo[t])] =
                                    store[doc[t]][Head(todo[t])]]
    /\ todo' = [todo EXCEPT ![t] = Tail(@)]
    /\ got' = [got EXCEPT ![t] = @ + 1]
    /\ pc' = [pc EXCEPT ![t] = "dvs_next"]
    /\ UNCHANGED <<overlap, doc, vs, outcome, ret, calls, ndl, after,
                   store, dirs, memCache, nextId, ensured, nLoaded>>
    /\ UNCHANGED <<streamVars, pdfVars, nameVars, catVars, authVars, askVars>>

\* download_blob() / readall() raises inside `with open(download_path, "wb")`:
\* the exception leaves search, the file just created stays.
DVS_WriteFail(t) ==
    /\ pc[t] = "dvs_write"
    /\ Finish(t, "raised_download", 0)
    /\ UNCHANGED <<overlap, doc, got, calls, ndl, after, cacheVars>>
    /\ UNCHANGED <<streamVars, pdfVars, nameVars, catVars, authVars, askVars>>

\* try: FAISS.load_local(...) except Exception: return []; then the similarity
\* search on the freshly loaded index.
S_Load(t) ==
    /\ pc[t] = "s_load"
    /\ IF LoadLocalOk(SafeDocId(doc[t]))
       THEN /\ Finish(t, "ok", nextId)
            /\ nextId' = nextId + 1
            /\ nLoaded' = [nLoaded EXCEPT ![doc[t]] = @ + 1]
       ELSE /\ Finish(t, "empty", 0)
            /\ UNCHANGED <<nextId, nLoaded>>
    /\ UNCHANGED <<overlap, doc, got, calls, ndl, after, store, disk, dirs, memCache, ensured>>
    /\ UNCHANGED <<streamVars, pdfVars, nameVars, catVars, authVars, askVars>>

NextSearch ==
    \E t \in Threads :
        \/ \E d \in Docs : S_Call(t, d)
        \/ S_Check(t)
        \/ DVS_List(t)
        \/ DVS_Next(t)
        \/ DVS_Write(t)
        \/ DVS_WriteFail(t)
        \/ S_Load(t)

SpecSearch == InitCache /\ [][NextSearch]_vars

\* --------------------------------------------------------- answer streams
\* Page metadata of a chunk: the key is missing, its value is None, or a number.
NoPageKey == -2
NonePage == -1
PageMetas == {NoPageKey, NonePage} \cup (0 .. MaxPage)
\* Number after a "Page" marker in the chunk text (NonePage: no marker).
TextPages == {NonePage} \cup (0 .. MaxPage)
Chunks == [page : PageMetas, textPage : TextPages]
FragSeqs == UNION {[1 .. n -> {"", "tok"}] : n \in 0 .. MaxFrags}

\* Question texts: empty, blank, and a real question.
Questions == {<<>>, <<" ">>, <<"q">>}

RECURSIVE LStrip(_)
LStrip(q) == IF q # <<>> /\ Head(q) = " " THEN LStrip(Tail(q)) ELSE q
RECURSIVE RStrip(_)
RStrip(q) ==
    IF q # <<>> /\ q[Len(q)] = " " THEN RStrip(SubSeq(q, 1, Len(q) - 1)) ELSE q
\* str.strip()
Strip(q) == RStrip(LStrip(q))

RECURSIVE SortedSeq(_)
\* sorted(S) for a set of numbers.
SortedSeq(S) ==
    IF S = {} THEN <<>>
    ELSE LET m == CHOOSE x \in S : \A y \in S : x <= y
         IN  <<m>> \o SortedSeq(S \ {m})

\* The records of the newline-delimited JSON stream.
MetaRecord(keys, pgs, first) ==
    [type |-> "meta", keys |-> keys, pages |-> pgs, first_page |-> first, content |-> ""]
TokenRecord(c) ==
    [type |-> "token", keys |-> {"content"}, pages |-> <<>>, first_page |-> 0, content |-> c]

\* End of a request before any record is streamed.
Respond(code) ==
    /\ spc' = "done"
    /\ status' = code
    /\ UNCHANGED <<chunks, pages, firstPage, frags, out, llmCalls>>

\* ---- PREVIOUSPROJECTATTEMPT/app.py: ask_stream
\* url_for("serve_pdf", doc_path=...): the route /pdf/<path:doc_path>
UrlFor(doc_path) == <<"/pdf/">> \o doc_path

\* pages_raw = [d.metadata.get("page") for d in docs if "page" in d.metadata]
PagesRaw(docs) == {docs[i].page : i \in {j \in 1 .. Len(docs) : docs[j].page # NoPageKey}}

\* sorted(set(pages_raw)) raises TypeError when None is compared with a number.
SortRaises(docs) == NonePage \in PagesRaw(docs) /\ PagesRaw(docs) # {NonePage}

UniquePagesRaw(docs) == SortedSeq(PagesRaw(docs))

\* unique_pages_raw and min(unique_pages_raw) == 0
ZeroBased(u) == u # <<>> /\ u[1] = 0

\* A per-value shift: only the page that is 0 becomes 1.
PagesDisplayPerValue(docs) ==
    LET u == UniquePagesRaw(docs)
    IN  [i \in 1 .. Len(u) |-> IF u[i] = 0 THEN 1 ELSE u[i]]

PagesDisplay(docs) ==
    LET u == UniquePagesRaw(docs)
    IN  IF ZeroBased(u) THEN [i \in 1 .. Len(u) |-> u[i] + 1] ELSE u

FirstPageForViewer(docs) ==
    LET u == UniquePagesRaw(docs)
    IN  IF ZeroBased(u) THEN u[1] + 1 ELSE IF u # <<>> THEN u[1] ELSE 1

\* The index answers the coming query with one more chunk (ranked last).
Retrievable(c) ==
    /\ spc = "idle"
    /\ Len(chunks) < MaxChunks
    /\ chunks' = Append(chunks, c)
    /\ UNCHANGED <<spc, pages, firstPage, frags, out, status, llmCalls>>
    /\ UNCHANGED <<req, requestVars, pdfVars, nameVars, catVars, authVars, askVars>>

\* The handler up to `return Response(...)`: request validation, get_doc_info,
\* get_vectorstore, retriever.invoke (docs) and the page computation.
AS_Request(hasDoc, q, known, vsOk) ==
    /\ spc = "idle"
    /\ LET docs == chunks IN
       IF ~hasDoc \/ Strip(q) = <<>> THEN Respond("400")
       ELSE IF ~known THEN Respond("400")
       ELSE IF ~vsOk THEN Respond("500")
       ELSE IF docs = <<>>
       THEN /\ spc' = "as_empty_meta"
            /\ status' = "200"
            /\ UNCHANGED <<chunks, pages, firstPage, frags, out, llmCalls>>
       ELSE IF SortRaises(docs) THEN Respond("500")
       ELSE /\ spc' = "as_meta"
            /\ pages' = PagesDisplay(docs)
            /\ firstPage' = FirstPageForViewer(docs)
            /\ status' = "200"
            /\ UNCHANGED <<chunks, frags, out, llmCalls>>
    /\ req' = [received |-> TRUE, hasDoc |-> hasDoc, question |-> q, known |-> known,
               vsOk |-> vsOk]
    /\ UNCHANGED <<requestVars, pdfVars, nameVars, catVars, authVars, askVars>>

\* generate_empty: first yield
AS_EmptyMeta ==
    /\ spc = "as_empty_meta"
    /\ out' = Append(out, [pdf_url |-> UrlFor(info.pdf_rel_path), doc_label |-> info.label]
                           @@ MetaRecord({"pages", "pdf_url", "first_page", "doc_label"},
                                         <<>>, 1))
    /\ spc' = "as_empty_token"
    /\ UNCHANGED <<chunks, pages, firstPage, frags, status, llmCalls>>
    /\ UNCHANGED <<req, requestVars, pdfVars, nameVars, catVars, authVars, askVars>>

\* generate_empty: second yield, then the generator ends
AS_EmptyToken ==
    /\ spc = "as_empty_token"
    /\ out' = Append(out, TokenRecord("no_info"))
    /\ spc' = "done"
    /\ UNCHANGED <<chunks, pages, firstPage, frags, status, llmCalls>>
    /\ UNCHANGED <<req, requestVars, pdfVars, nameVars, catVars, authVars, askVars>>

\* generate: "Yield metadata first"
AS_Meta ==
    /\ spc = "as_meta"
    /\ out' = Append(out, [pdf_url |-> UrlFor(info.pdf_rel_path), doc_label |-> info.label]
                           @@ MetaRecord({"pages", "pdf_url", "first_page", "doc_label"},
                                         pages, firstPage))
    /\ spc' = "as_llm"
    /\ UNCHANGED <<chunks, pages, firstPage, frags, status, llmCalls>>
    /\ UNCHANGED <<req, requestVars, pdfVars, nameVars, catVars, authVars, askVars>>

\* get_llm().stream(prompt) is invoked; fs is what the model is going to stream.
AS_Invoke(fs) ==
    /\ spc = "as_llm"
    /\ llmCalls' = llmCalls + 1
    /\ frags' = fs
    /\ spc' = "as_stream"
    /\ UNCHANGED <<chunks, pages, firstPage, out, status>>
    /\ UNCHANGED <<req, requestVars, pdfVars, nameVars, catVars, authVars, askVars>>

\* One turn of `for chunk in get_llm().stream(prompt)`: a fragment with content is
\* yielded as a token record, an empty one is dropped; the generator ends with
\* the model's stream.
AS_Chunk ==
    /\ spc = "as_stream"
    /\ IF frags = <<>>
       THEN /\ spc' = "done"
            /\ UNCHANGED <<frags, out>>
       ELSE /\ frags' = Tail(frags)
            /\ out' = IF Head(frags) # "" THEN Append(out, TokenRecord(Head(frags))) ELSE out
            /\ UNCHANGED spc
    /\ UNCHANGED <<chunks, pages, firstPage, status, llmCalls>>
    /\ UNCHANGED <<req, requestVars, pdfVars, nameVars, catVars, authVars, askVars>>

\* A handler that answers a failed invocation by running the generator again.
AS_LlmFailRestart ==
    /\ spc \in {"as_llm", "as_stream"}
    /\ spc' = "as_meta"
    /\ llmCalls' = IF spc = "as_llm" THEN llmCalls + 1 ELSE llmCalls
    /\ UNCHANGED <<chunks, pages, firstPage, frags, out, status>>
    /\ UNCHANGED <<req, requestVars, pdfVars, nameVars, catVars, authVars, askVars>>

\* The model invocation fails (timeout, quota): the exception ends the generator.
AS_LlmFail ==
    /\ spc \in {"as_llm", "as_stream"}
    /\ spc' = "aborted"
    /\ llmCalls' = IF spc = "as_llm" THEN llmCalls + 1 ELSE llmCalls
    /\ UNCHANGED <<chunks, pages, firstPage, frags, out, status>>
    /\ UNCHANGED <<req, requestVars, pdfVars, nameVars, catVars, authVars, askVars>>

NextAskStream ==
    \/ \E c \in Chunks : Retrievable(c)
    \/ \E hasDoc \in BOOLEAN, q \in Questions, known \in BOOLEAN, vsOk \in BOOLEAN :
          AS_Request(hasDoc, q, known, vsOk)
    \/ AS_EmptyMeta
    \/ AS_EmptyToken
    \/ AS_Meta
    \/ \E fs \in FragSeqs : AS_Invoke(fs)
    \/ AS_Chunk
    \/ AS_LlmFail

\* The previous app serving one answer request, every artifact in the store.
InitStream ==
    /\ store = [d \in Docs |-> [f \in Artifacts |-> "good"]]
    /\ CacheStart
    /\ StreamStart
    /\ PdfStart
    /\ CatStart
    /\ container = <<>>
    /\ presented = NoSession
    /\ AuthStart
    /\ info = KnownDocInfo
    /\ AskStart
    /\ NameStart
    /\ idA = DocX
    /\ idB = DocY

SpecAskStream == InitStream /\ [][NextAskStream]_vars

\* ---- app.py: ask_stream / generate, with SearchService.search's result list
\* A page computation without the final default.
PageNumNoDefault(c) ==
    LET fromMeta == IF c.page \in {NoPageKey, NonePage} THEN NonePage ELSE c.page + 1
    IN  IF fromMeta # NonePage THEN fromMeta ELSE c.textPage

\* Lines 54-74 of search: the page of one result.
PageNum(c) ==
    LET fromMeta == IF c.page \in {NoPageKey, NonePage} THEN NonePage ELSE c.page + 1
        fromText == IF fromMeta # NonePage THEN fromMeta ELSE c.textPage
    IN  IF fromText = NonePage \/ fromText = 0 THEN 1 ELSE fromText

\* processed_results: one entry per retrieved document.
\* (content is kept as the page marker the text carries).
ProcessedResults(docs) ==
    [i \in 1 .. Len(docs) |-> [content |-> docs[i].textPage, page |-> PageNum(docs[i])]]

\* pages = sorted(list(set(r['page'] for r in results)))
ResultPages(results) == SortedSeq({results[i].page : i \in 1 .. Len(results)})

\* ask_stream: the request check, then Response(generate()).  known tells whether
\* doc_id names a document of the container; the handler never looks it up.
G_Request(hasDoc, q, known) ==
    /\ spc = "idle"
    /\ IF ~hasDoc \/ q = <<>>
       THEN Respond("400")
       ELSE /\ spc' = "g_search"
            /\ status' = "200"
            /\ UNCHANGED <<chunks, pages, firstPage, frags, out, llmCalls>>
    \* vsOk: the handler itself loads no index, search runs inside generate.
    /\ req' = [received |-> TRUE, hasDoc |-> hasDoc, question |-> q, known |-> known,
               vsOk |-> TRUE]
    /\ UNCHANGED <<requestVars, pdfVars, nameVars, catVars, authVars, askVars>>

\* generate up to its first yield: search, then either the "No relevant
\* information found." token (and return) or the metadata record.  searchOk is
\* FALSE when search returned [] before retrieval (no artifacts, load failure);
\* a doc_id that names no document has no blobs under its prefix.
G_Search(searchOk) ==
    /\ spc = "g_search"
    /\ LET results == IF searchOk /\ req.known THEN ProcessedResults(chunks) ELSE <<>>
       IN  IF results = <<>>
           THEN /\ out' = Append(out, TokenRecord("no_info"))
                /\ spc' = "done"
                /\ UNCHANGED <<pages, frags>>
           ELSE /\ out' = Append(out, MetaRecord({"pages", "pdf_url", "doc_label"},
                                                 ResultPages(results), 0))
                /\ spc' = "g_found"
                /\ pages' = ResultPages(results)
                /\ frags' = [i \in 1 .. Len(results) |-> "snippet"]
    /\ UNCHANGED <<chunks, firstPage, status, llmCalls>>
    /\ UNCHANGED <<req, requestVars, pdfVars, nameVars, catVars, authVars, askVars>>

\* search raises (a download error is not caught): the generator dies.
G_SearchFail ==
    /\ spc = "g_search"
    /\ spc' = "aborted"
    /\ UNCHANGED <<chunks, pages, firstPage, frags, out, status, llmCalls>>
    /\ UNCHANGED <<req, requestVars, pdfVars, nameVars, catVars, authVars, askVars>>

\* yield the "Found n relevant snippets" token
G_Found ==
    /\ spc = "g_found"
    /\ out' = Append(out, TokenRecord("found"))
    /\ spc' = "g_snippets"
    /\ UNCHANGED <<chunks, pages, firstPage, frags, status, llmCalls>>
    /\ UNCHANGED <<req, requestVars, pdfVars, nameVars, catVars, authVars, askVars>>

\* One turn of `for i, res in enumerate(results)`: the snippet as one token.
G_Snippet ==
    /\ spc = "g_snippets"
    /\ IF frags = <<>>
       THEN /\ spc' = "done"
            /\ UNCHANGED <<frags, out>>
       ELSE /\ out' = Append(out, TokenRecord(Head(frags)))
            /\ frags' = Tail(frags)
            /\ UNCHANGED spc
    /\ UNCHANGED <<chunks, pages, firstPage, status, llmCalls>>
    /\ UNCHANGED <<req, requestVars, pdfVars, nameVars, catVars, authVars, askVars>>

NextGenerate ==
    \/ \E c \in Chunks : Retrievable(c)
    \/ \E hasDoc \in BOOLEAN, q \in Questions, known \in BOOLEAN : G_Request(hasDoc, q, known)
    \/ \E searchOk \in BOOLEAN : G_Search(searchOk)
    \/ G_SearchFail
    \/ G_Found
    \/ G_Snippet

SpecGenerate == InitStream /\ [][NextGenerate]_vars

\* An answer request served by either generation of the app.
NextAnswer ==
    \/ \E c \in Chunks : Retrievable(c)
    \/ \E hasDoc \in BOOLEAN, q \in Questions, known \in BOOLEAN, vsOk \in BOOLEAN :
          AS_Request(hasDoc, q, known, vsOk)
    \/ AS_EmptyMeta
    \/ AS_EmptyToken
    \/ AS_Meta
    \/ \E fs \in FragSeqs : AS_Invoke(fs)
    \/ AS_Chunk
    \/ AS_LlmFail
    \/ \E hasDoc \in BOOLEAN, q \in Questions, known \in BOOLEAN : G_Request(hasDoc, q, known)
    \/ \E searchOk \in BOOLEAN : G_Search(searchOk)
    \/ G_SearchFail
    \/ G_Found
    \/ G_Snippet

SpecAnswer == InitStream /\ [][NextAnswer]_vars

\* ---- PREVIOUSPROJECTATTEMPT/app.py: serve_pdf
PathChars == {"a", ".", "/", "\\"}
\* <path:doc_path> of the route: a non-empty string.
PdfPaths == UNION {[1 .. n -> PathChars] : n \in 1 .. MaxPathLen}

\* norm = doc_path.replace("\\", "/")
NormPath(p) == ReplaceAll(p, "\\", <<"/">>)

RECURSIVE HasDotDot(_)
\* ".." in s
HasDotDot(s) == Len(s) >= 2 /\ ((s[1] = "." /\ s[2] = ".") \/ HasDotDot(Tail(s)))

\* The same check on the raw doc_path, without the normalisation.
InvalidPdfPathRaw(p) == HasDotDot(p) \/ Head(p) = "/"

\* "Basic path safety": ".." in norm or norm.startswith("/")
InvalidPdfPath(p) ==
    LET norm == NormPath(p)
    IN  HasDotDot(norm) \/ (norm # <<>> /\ Head(norm) = "/")

\* serve_pdf up to blob_exists: the path check.
PDF_Request(p) ==
    /\ ppc = "idle"
    /\ path' = p
    /\ IF InvalidPdfPath(p)
       THEN /\ pstatus' = "400"
            /\ ppc' = "done"
       ELSE /\ pstatus' = "none"
            /\ ppc' = "exists"
    /\ UNCHANGED storeOps
    /\ UNCHANGED <<requestVars, streamVars, nameVars, catVars, authVars, askVars>>

\* blob_client.blob_exists(blob_name): 404 when the blob is missing.
PDF_Exists(found) ==
    /\ ppc = "exists"
    /\ storeOps' = Append(storeOps, "exists")
    /\ IF found
       THEN /\ pstatus' = "200"
            /\ ppc' = "stream"
       ELSE /\ pstatus' = "404"
            /\ ppc' = "done"
    /\ UNCHANGED path
    /\ UNCHANGED <<requestVars, streamVars, nameVars, catVars, authVars, askVars>>

\* Response(stream_with_context(blob_client.stream_blob(blob_name)))
PDF_Stream ==
    /\ ppc = "stream"
    /\ storeOps' = Append(storeOps, "stream")
    /\ ppc' = "done"
    /\ UNCHANGED <<path, pstatus>>
    /\ UNCHANGED <<requestVars, streamVars, nameVars, catVars, authVars, askVars>>

NextPdf ==
    \/ \E p \in PdfPaths : PDF_Request(p)
    \/ \E found \in BOOLEAN : PDF_Exists(found)
    \/ PDF_Stream

SpecPdf == InitStream /\ [][NextPdf]_vars

\* ---- local cache directory of a doc_id
IdChars == {"a", "_", ".", "/", "\\"}
\* doc_id strings a request can carry (`not doc_id` turns the empty one away).
DocIdStrings == UNION {[1 .. n -> IdChars] : n \in 1 .. MaxIdLen}

RECURSIVE SplitPath(_)
\* The components of a path, split at "/".
SplitPath(s) ==
    IF s = <<>> THEN << <<>> >>
    ELSE LET r == SplitPath(Tail(s))
         IN  IF Head(s) = "/" THEN << <<>> >> \o r
             ELSE << <<Head(s)>> \o r[1] >> \o Tail(r)

RECURSIVE Climb(_, _)
\* Depth below the cache root at which the walk along the components ends;
\* -1 once the walk has gone above the root.
Climb(segs, d) ==
    IF segs = <<>> THEN d
    ELSE IF Head(segs) = <<".", ".">>
         THEN IF d = 0 THEN -1 ELSE Climb(Tail(segs), d - 1)
    ELSE IF Head(segs) \in {<<>>, <<".">>} THEN Climb(Tail(segs), d)
    ELSE Climb(Tail(segs), d + 1)

\* os.path.join(self.cache_dir, name) / self.cache_root / name names a directory
\* strictly below the cache root.
InsideCacheRoot(name) == Climb(SplitPath(name), 0) >= 1

\* Two requests' doc_ids go through VectorstoreManager._local_dir_for_doc.
M_LocalDir ==
    /\ impl = "none"
    /\ impl' = "manager"
    /\ dirA' = LocalDirForDoc(idA)
    /\ dirB' = LocalDirForDoc(idB)
    /\ UNCHANGED <<idA, idB>>
    /\ UNCHANGED <<requestVars, streamVars, pdfVars, catVars, authVars, askVars>>

\* Two requests' doc_ids go through SearchService.search's safe_doc_id.
S_TargetDir ==
    /\ impl = "none"
    /\ impl' = "search"
    /\ dirA' = SafeDocId(idA)
    /\ dirB' = SafeDocId(idB)
    /\ UNCHANGED <<idA, idB>>
    /\ UNCHANGED <<requestVars, streamVars, pdfVars, catVars, authVars, askVars>>

NextNames ==
    \/ M_LocalDir
    \/ S_TargetDir

InitNames ==
    /\ store = [d \in Docs |-> [f \in Artifacts |-> "good"]]
    /\ CacheStart
    /\ StreamStart
    /\ PdfStart
    /\ CatStart
    /\ container = <<>>
    /\ presented = NoSession
    /\ AuthStart
    /\ info = KnownDocInfo
    /\ AskStart
    /\ NameStart
    /\ idA \in DocIdStrings
    /\ idB \in DocIdStrings

SpecNames == InitNames /\ [][NextNames]_vars

\* ---- catalog: doc_index.py build_doc_index_from_blob, app.py get_doc_index
\* Blob names are sequences of characters; a file name's extension and
\* "index.faiss" / "index.pkl" stand as one character each.
\* vectorstore_prefix.strip("/") + "/"   ("v" for the configured prefix)
VsPrefix == <<"v", "/">>
FaissSuffix == <<"/", "index.faiss">>

\* Names under the vectorstore prefix: v/A/0/x/index.faiss, v/A/0/y/index.faiss,
\* v/A/1/y/index.faiss, v/A/index.faiss, v//index.faiss, v/A/0/x/index.pkl.
VsNames ==
    { <<"v", "/", "A", "/", "0", "/", "x", "/", "index.faiss">>,
      <<"v", "/", "A", "/", "0", "/", "y", "/", "index.faiss">>,
      <<"v", "/", "A", "/", "1", "/", "y", "/", "index.faiss">>,
      <<"v", "/", "A", "/", "index.faiss">>,
      <<"v", "/", "/", "index.faiss">>,
      <<"v", "/", "A", "/", "0", "/", "x", "/", "index.pkl">> }

\* Every order in which a container of up to MaxKeys of the names is listed.
Listings(names) ==
    {l \in UNION {[1 .. n -> names] : n \in 0 .. MaxKeys} :
        \A i, j \in 1 .. Len(l) : i # j => l[i] # l[j]}

\* str.startswith / str.endswith
StartsWith(str, pre) == Len(str) >= Len(pre) /\ SubSeq(str, 1, Len(pre)) = pre
EndsWith(str, suf) ==
    Len(str) >= Len(suf) /\ SubSeq(str, Len(str) - Len(suf) + 1, Len(str)) = suf

\* list_blobs(name_starts_with=prefix), in listing order
ListPrefix(prefix) == SelectSeq(container, LAMBDA n : StartsWith(n, prefix))

\* Code-point order of the characters that occur in labels.
CharOrder == <<".pdf", ".txt", "/", "0", "1", "A", "b", "x", "y">>
Ord(c) == CHOOSE i \in 1 .. Len(CharOrder) : CharOrder[i] = c

RECURSIVE StrLess(_, _)
\* a < b on Python strings
StrLess(a, b) ==
    IF b = <<>> THEN FALSE
    ELSE IF a = <<>> THEN TRUE
    ELSE IF Head(a) = Head(b) THEN StrLess(Tail(a), Tail(b))
    ELSE Ord(Head(a)) < Ord(Head(b))

RECURSIVE Join(_)
\* "/".join(segs)
Join(segs) ==
    IF segs = <<>> THEN <<>>
    ELSE IF Len(segs) = 1 THEN segs[1]
    ELSE segs[1] \o <<"/">> \o Join(Tail(segs))

\* doc_id = blob_name[len(prefix) : -len("/index.faiss")]
DocIdOfBlob(name) == SubSeq(name, Len(VsPrefix) + 1, Len(name) - Len(FaissSuffix))

\* parts = [p for p in doc_id.split("/") if p]
Parts(id) == SelectSeq(SplitPath(id), LAMBDA g : g # <<>>)

\* The doc dict of one index.faiss blob.
DocEntry(id) ==
    LET parts == Parts(id)
    IN  [id |-> id,
         label |-> IF Len(parts) > 2 THEN Join(SubSeq(parts, 3, Len(parts)))
                   ELSE IF parts # <<>> THEN parts[Len(parts)] ELSE id,
         year |-> IF Len(parts) >= 2 THEN parts[2] ELSE <<"root">>,
         pdf_rel_path |-> id \o <<".pdf">>,
         vs_rel_path |-> id]

\* index.setdefault(category, {}).setdefault(year, []).append(doc): the catalog
\* is a sequence of buckets [category, year, docs] in insertion order.
AppendToBucket(index, category, year, entry) ==
    IF \E i \in 1 .. Len(index) : index[i].category = category /\ index[i].year = year
    THEN [i \in 1 .. Len(index) |->
             IF index[i].category = category /\ index[i].year = year
             THEN [index[i] EXCEPT !.docs = Append(@, entry)]
             ELSE index[i]]
    ELSE Append(index, [category |-> category, year |-> year, docs |-> <<entry>>])

\* One turn of `for blob_name in blob.list_blobs(prefix)`.
AddDoc(index, name) ==
    IF ~EndsWith(name, FaissSuffix) THEN index
    ELSE LET doc_id == DocIdOfBlob(name)
             parts == Parts(doc_id)
         IN  IF doc_id = <<>> THEN index
             ELSE AppendToBucket(index,
                                 IF Len(parts) >= 1 THEN parts[1] ELSE <<"root">>,
                                 IF Len(parts) >= 2 THEN parts[2] ELSE <<"root">>,
                                 DocEntry(doc_id))

RECURSIVE SortedByLabel(_)
\* sorted(docs, key=lambda x: x["label"])  (stable)
SortedByLabel(docs) ==
    IF docs = <<>> THEN <<>>
    ELSE LET rest == SortedByLabel(SubSeq(docs, 1, Len(docs) - 1))
             e == docs[Len(docs)]
             k == Cardinality({i \in 1 .. Len(rest) : ~StrLess(e.label, rest[i].label)})
         IN  SubSeq(rest, 1, k) \o <<e>> \o SubSeq(rest, k + 1, Len(rest))

\* "Sort for stable dropdown ordering"
SortBuckets(index) ==
    [i \in 1 .. Len(index) |-> [index[i] EXCEPT !.docs = SortedByLabel(@)]]

\* The build that fills the shared cache entry while it is still listing.
DI_NextPublishing(t) ==
    /\ cpc[t] = "di_list"
    /\ IF ctodo[t] = <<>>
       THEN /\ cpc' = [cpc EXCEPT ![t] = "di_sort"]
            /\ UNCHANGED <<ctodo, cidx, catCache>>
       ELSE /\ cidx' = [cidx EXCEPT ![t] = AddDoc(@, Head(ctodo[t]))]
            /\ ctodo' = [ctodo EXCEPT ![t] = Tail(@)]
            /\ catCache' = [built |-> TRUE, idx |-> cidx'[t]]
            /\ UNCHANGED cpc
    /\ UNCHANGED <<container, cseen>>
    /\ UNCHANGED <<requestVars, streamVars, pdfVars, nameVars, authVars, askVars>>

\* get_doc_index(): the lru_cache hit, or the start of build_doc_index_from_blob.
DI_Call(t) ==
    /\ cpc[t] = "idle"
    /\ IF catCache.built
       THEN /\ cseen' = [cseen EXCEPT ![t] = catCache]
            /\ UNCHANGED <<cpc, ctodo, cidx>>
       ELSE /\ cpc' = [cpc EXCEPT ![t] = "di_list"]
            /\ ctodo' = [ctodo EXCEPT ![t] = ListPrefix(VsPrefix)]
            /\ cidx' = [cidx EXCEPT ![t] = EmptyIndex]
            /\ UNCHANGED cseen
    /\ UNCHANGED <<container, catCache>>
    /\ UNCHANGED <<requestVars, streamVars, pdfVars, nameVars, authVars, askVars>>

\* One turn of the listing loop; the loop ends with the listing.
DI_Next(t) ==
    /\ cpc[t] = "di_list"
    /\ IF ctodo[t] = <<>>
       THEN /\ cpc' = [cpc EXCEPT ![t] = "di_sort"]
            /\ UNCHANGED <<ctodo, cidx>>
       ELSE /\ cidx' = [cidx EXCEPT ![t] = AddDoc(@, Head(ctodo[t]))]
            /\ ctodo' = [ctodo EXCEPT ![t] = Tail(@)]
            /\ UNCHANGED cpc
    /\ UNCHANGED <<container, catCache, cseen>>
    /\ UNCHANGED <<requestVars, streamVars, pdfVars, nameVars, authVars, askVars>>

\* The listing raises part-way: the exception leaves build and get_doc_index,
\* nothing is cached or returned.
DI_ListFail(t) ==
    /\ cpc[t] = "di_list"
    /\ cpc' = [cpc EXCEPT ![t] = "idle"]
    /\ ctodo' = [ctodo EXCEPT ![t] = <<>>]
    /\ cidx' = [cidx EXCEPT ![t] = EmptyIndex]
    /\ UNCHANGED <<container, catCache, cseen>>
    /\ UNCHANGED <<requestVars, streamVars, pdfVars, nameVars, authVars, askVars>>

\* The sorting loop over the buckets.
DI_Sort(t) ==
    /\ cpc[t] = "di_sort"
    /\ cidx' = [cidx EXCEPT ![t] = SortBuckets(@)]
    /\ cpc' = [cpc EXCEPT ![t] = "di_return"]
    /\ UNCHANGED <<container, catCache, ctodo, cseen>>
    /\ UNCHANGED <<requestVars, streamVars, pdfVars, nameVars, authVars, askVars>>

\* return index: lru_cache stores the result and the caller gets it.
DI_Return(t) ==
    /\ cpc[t] = "di_return"
    /\ catCache' = [built |-> TRUE, idx |-> cidx[t]]
    /\ cseen' = [cseen EXCEPT ![t] = [built |-> TRUE, idx |-> cidx[t]]]
    /\ cpc' = [cpc EXCEPT ![t] = "idle"]
    /\ cidx' = [cidx EXCEPT ![t] = EmptyIndex]
    /\ UNCHANGED <<container, ctodo>>
    /\ UNCHANGED <<requestVars, streamVars, pdfVars, nameVars, authVars, askVars>>

NextCatalog ==
    \/ \E t \in Threads : DI_Call(t)
    \/ \E t \in Threads : DI_Next(t)
    \/ \E t \in Threads : DI_ListFail(t)
    \/ \E t \in Threads : DI_Sort(t)
    \/ \E t \in Threads : DI_Return(t)

InitCatalog ==
    /\ store = [d \in Docs |-> [f \in Artifacts |-> "good"]]
    /\ CacheStart
    /\ StreamStart
    /\ PdfStart
    /\ NameStart
    /\ idA = DocX
    /\ idB = DocY
    /\ CatStart
    /\ container \in Listings(VsNames)
    /\ presented = NoSession
    /\ AuthStart
    /\ info = KnownDocInfo
    /\ AskStart

SpecCatalog == InitCatalog /\ [][NextCatalog]_vars

\* ---- catalog of the current app: BlobService.list_blobs_hierarchy
\* name_starts_with="pdfs/"   ("p" for pdfs)
PdfPrefix == <<"p", "/">>

\* Names under pdfs/: p/A/0/x.pdf, p/A/0/y.pdf, p/A/0/b/y.pdf, p/A/x.pdf, p/A/0/x.txt.
PdfNames ==
    { <<"p", "/", "A", "/", "0", "/", "x", ".pdf">>,
      <<"p", "/", "A", "/", "0", "/", "y", ".pdf">>,
      <<"p", "/", "A", "/", "0", "/", "b", "/", "y", ".pdf">>,
      <<"p", "/", "A", "/", "x", ".pdf">>,
      <<"p", "/", "A", "/", "0", "/", "x", ".txt">> }

\* The container of the current app: PDFs, and the index of A/0/x.
ContainerNames == PdfNames \cup {<<"v", "/", "A", "/", "0", "/", "x", "/", "index.faiss">>}

\* os.path.splitext(filename)[0]
SplitExtStem(filename) ==
    IF filename # <<>> /\ filename[Len(filename)] \in {".pdf", ".txt"}
    THEN SubSeq(filename, 1, Len(filename) - 1)
    ELSE filename

\* One turn of `for blob in blobs`.
AddPdf(hierarchy, name) ==
    LET parts == SplitPath(name)
    IN  IF EndsWith(name, <<".pdf">>) /\ Len(parts) >= 4
        THEN LET category == parts[2]
                 year == parts[3]
                 filename == parts[Len(parts)]
             IN  AppendToBucket(hierarchy, category, year,
                     [name |-> filename,
                      blob_path |-> name,
                      doc_id |-> category \o <<"/">> \o year \o <<"/">>
                                     \o SplitExtStem(filename)])
        ELSE hierarchy

\* list_blobs_hierarchy is entered (it runs for every request of the index page).
LH_Call(t) ==
    /\ cpc[t] = "idle"
    /\ cpc' = [cpc EXCEPT ![t] = "lh_list"]
    /\ ctodo' = [ctodo EXCEPT ![t] = ListPrefix(PdfPrefix)]
    /\ cidx' = [cidx EXCEPT ![t] = EmptyIndex]
    /\ UNCHANGED <<container, catCache, cseen>>
    /\ UNCHANGED <<requestVars, streamVars, pdfVars, nameVars, authVars, askVars>>

\* One turn of the loop; after the last blob `return hierarchy`.
LH_Next(t) ==
    /\ cpc[t] = "lh_list"
    /\ IF ctodo[t] = <<>>
       THEN /\ cseen' = [cseen EXCEPT ![t] = [built |-> TRUE, idx |-> cidx[t]]]
            /\ cpc' = [cpc EXCEPT ![t] = "idle"]
            /\ cidx' = [cidx EXCEPT ![t] = EmptyIndex]
            /\ UNCHANGED ctodo
       ELSE /\ cidx' = [cidx EXCEPT ![t] = AddPdf(@, Head(ctodo[t]))]
            /\ ctodo' = [ctodo EXCEPT ![t] = Tail(@)]
            /\ UNCHANGED <<cpc, cseen>>
    /\ UNCHANGED <<container, catCache>>
    /\ UNCHANGED <<requestVars, streamVars, pdfVars, nameVars, authVars, askVars>>

\* The listing raises part-way: `except Exception` prints the error and the
\* function goes on to `return hierarchy`.
LH_ListFail(t) ==
    /\ cpc[t] = "lh_list"
    /\ cseen' = [cseen EXCEPT ![t] = [built |-> TRUE, idx |-> cidx[t]]]
    /\ cpc' = [cpc EXCEPT ![t] = "idle"]
    /\ ctodo' = [ctodo EXCEPT ![t] = <<>>]
    /\ cidx' = [cidx EXCEPT ![t] = EmptyIndex]
    /\ UNCHANGED <<container, catCache>>
    /\ UNCHANGED <<requestVars, streamVars, pdfVars, nameVars, authVars, askVars>>

NextHierarchy ==
    \/ \E t \in Threads : LH_Call(t)
    \/ \E t \in Threads : LH_Next(t)
    \/ \E t \in Threads : LH_ListFail(t)

InitHierarchy ==
    /\ store = [d \in Docs |-> [f \in Artifacts |-> "good"]]
    /\ CacheStart
    /\ StreamStart
    /\ PdfStart
    /\ NameStart
    /\ idA = DocX
    /\ idB = DocY
    /\ CatStart
    /\ container \in Listings(ContainerNames)
    /\ presented = NoSession
    /\ AuthStart
    /\ info = KnownDocInfo
    /\ AskStart

SpecHierarchy == InitHierarchy /\ [][NextHierarchy]_vars

\* ---- PREVIOUSPROJECTATTEMPT/auth: domain_required, get_email_from_claims
\* AuthSettings.allowed_email_domain (stripped and lower-cased when loaded).
AllowedDomain == <<"d">>

\* Texts of a claim: "", " ", "u@d", "U@D", "u@e", "u@d ", "u@xd", "d".
ClaimTexts ==
    { <<>>, <<" ">>, <<"u", "@", "d">>, <<"U", "@", "D">>, <<"u", "@", "e">>,
      <<"u", "@", "d", " ">>, <<"u", "@", "x", "d">>, <<"d">> }
ClaimVals == {NotAString} \cup {[isStr |-> TRUE, s |-> x] : x \in ClaimTexts}

\* Sessions a request can arrive with: no user, a user that is no dict, a user
\* dict without a claims dict, a user dict with claims.
Sessions ==
    {NoSession, [NoSession EXCEPT !.user = "nondict"], [NoSession EXCEPT !.user = "dict"]}
    \cup {[user |-> "dict", hasClaims |-> TRUE,
           preferred_username |-> a, email |-> b, upn |-> c,
           auth_state |-> 0, post_login_redirect |-> FALSE] :
              a \in ClaimVals, b \in ClaimVals, c \in ClaimVals}

\* str.lower()
Lower(str) ==
    [i \in 1 .. Len(str) |-> IF str[i] = "U" THEN "u" ELSE IF str[i] = "D" THEN "d" ELSE str[i]]

\* get_email_from_claims: the first of preferred_username, email, upn that is a
\* non-blank string, stripped; <<>> stands for None.
GetEmailFromClaims(claims) ==
    LET usable(v) == v.isStr /\ Strip(v.s) # <<>>
    IN  IF usable(claims.preferred_username) THEN Strip(claims.preferred_username.s)
        ELSE IF usable(claims.email) THEN Strip(claims.email.s)
        ELSE IF usable(claims.upn) THEN Strip(claims.upn.s)
        ELSE <<>>

\* A wrapper that turns the request away and leaves the session as it was.
DR_WrapperKeepsSession(sess) ==
    /\ apc = "idle"
    /\ sess = presented
    /\ LET email == IF sess.user = "dict" /\ sess.hasClaims
                    THEN GetEmailFromClaims(sess) ELSE <<>>
       IN  IF email = <<>>
           THEN /\ aresp' = "302"
                /\ handlerRan' = FALSE
           ELSE IF EndsWith(Lower(email), <<"@">> \o AllowedDomain)
           THEN /\ aresp' = "200"
                /\ handlerRan' = TRUE
           ELSE /\ aresp' = "403"
                /\ handlerRan' = FALSE
    /\ apc' = "done"
    /\ UNCHANGED <<presented, session, loginVars>>
    /\ UNCHANGED <<requestVars, streamVars, pdfVars, nameVars, catVars, askVars>>

\* wrapper of domain_required for a request that arrives with session sess.
DR_Wrapper(sess) ==
    /\ apc = "idle"
    /\ sess = presented
    /\ LET email == IF sess.user = "dict" /\ sess.hasClaims
                    THEN GetEmailFromClaims(sess) ELSE <<>>
       IN  IF email = <<>>
           THEN /\ session' = NoSession
                /\ aresp' = "302"
                /\ handlerRan' = FALSE
           ELSE IF EndsWith(Lower(email), <<"@">> \o AllowedDomain)
           THEN /\ aresp' = "200"
                /\ handlerRan' = TRUE
                /\ UNCHANGED session
           ELSE /\ session' = NoSession
                /\ aresp' = "403"
                /\ handlerRan' = FALSE
    /\ apc' = "done"
    /\ UNCHANGED <<presented, loginVars>>
    /\ UNCHANGED <<requestVars, streamVars, pdfVars, nameVars, catVars, askVars>>

NextAuth == \E sess \in Sessions : DR_Wrapper(sess)

InitAuth ==
    /\ store = [d \in Docs |-> [f \in Artifacts |-> "good"]]
    /\ CacheStart
    /\ StreamStart
    /\ PdfStart
    /\ NameStart
    /\ idA = DocX
    /\ idB = DocY
    /\ CatStart
    /\ container = <<>>
    /\ presented \in Sessions
    /\ AuthStart
    /\ info = KnownDocInfo
    /\ AskStart

SpecAuth == InitAuth /\ [][NextAuth]_vars

\* ---- PREVIOUSPROJECTATTEMPT/auth/routes.py: login, callback, logout
\* The requests of one browser session are handled one after another, each on
\* the session the one before it left.  State tokens are numbered 1, 2, ... in
\* the order new_state_token hands them out; 0 stands for no state.

\* id_token_claims a token exchange can return: none, "u@d", "u@e", a blank
\* preferred_username beside the email "U@D", and "u@xd".
CallbackClaims ==
    { NoClaims,
      [NoClaims EXCEPT !.preferred_username = [isStr |-> TRUE, s |-> <<"u", "@", "d">>]],
      [NoClaims EXCEPT !.preferred_username = [isStr |-> TRUE, s |-> <<"u", "@", "e">>]],
      [NoClaims EXCEPT !.preferred_username = [isStr |-> TRUE, s |-> <<" ">>],
                       !.email = [isStr |-> TRUE, s |-> <<"U", "@", "D">>]],
      [NoClaims EXCEPT !.preferred_username = [isStr |-> TRUE, s |-> <<"u", "@", "x", "d">>]] }

\* session["user"] = {...}; session.pop("auth_state"); session.pop("post_login_redirect")
UserSession(sess, claims) ==
    [user |-> "dict", hasClaims |-> TRUE,
     preferred_username |-> claims.preferred_username,
     email |-> claims.email, upn |-> claims.upn,
     auth_state |-> 0, post_login_redirect |-> FALSE]

\* A session that holds the user of an earlier login.
LoggedIn ==
    UserSession(NoSession,
                [NoClaims EXCEPT !.preferred_username = [isStr |-> TRUE, s |-> <<"u", "@", "d">>]])

\* login(): a new state token is stored in the session, beside whatever the
\* session holds, and the browser is sent to the identity provider.
L_Login ==
    /\ issued < MaxLogins
    /\ issued' = issued + 1
    /\ session' = [session EXCEPT !.auth_state = issued + 1, !.post_login_redirect = TRUE]
    /\ spent' = {}
    /\ lresp' = "302_idp"
    /\ UNCHANGED <<presented, apc, handlerRan, aresp, lastCb>>
    /\ UNCHANGED <<requestVars, streamVars, pdfVars, nameVars, catVars, askVars>>

\* A callback that does not test the domain of the email.
CB_CallbackAnyDomain(received, code, result, claims) ==
    /\ lastCb' = [received |-> received, code |-> code, result |-> result,
                  claims |-> claims, expected |-> session.auth_state,
                  spent |-> spent, hadUser |-> session.user # "absent"]
    /\ spent' = spent \cup {received}
    /\ LET expected_state == session.auth_state
           email == GetEmailFromClaims(claims)
       IN  IF expected_state = 0 \/ expected_state # received
           THEN /\ session' = NoSession
                /\ lresp' = "400_state"
           ELSE IF ~code
           THEN /\ session' = NoSession
                /\ lresp' = "400_code"
           ELSE IF result # "ok"
           THEN /\ session' = NoSession
                /\ lresp' = IF result = "error" THEN "400_token" ELSE "500"
           ELSE IF email = <<>>
           THEN /\ session' = NoSession
                /\ lresp' = "400_email"
           ELSE IF FALSE
           THEN /\ session' = NoSession
                /\ lresp' = "403"
           ELSE /\ session' = UserSession(session, claims)
                /\ lresp' = "302_next"
    /\ UNCHANGED <<presented, apc, handlerRan, aresp, issued>>
    /\ UNCHANGED <<requestVars, streamVars, pdfVars, nameVars, catVars, askVars>>

\* A callback that leaves auth_state in the session when it succeeds.
CB_CallbackKeepsState(received, code, result, claims) ==
    /\ lastCb' = [received |-> received, code |-> code, result |-> result,
                  claims |-> claims, expected |-> session.auth_state,
                  spent |-> spent, hadUser |-> session.user # "absent"]
    /\ spent' = spent \cup {received}
    /\ LET expected_state == session.auth_state
           email == GetEmailFromClaims(claims)
       IN  IF expected_state = 0 \/ expected_state # received
           THEN /\ session' = NoSession
                /\ lresp' = "400_state"
           ELSE IF ~code
           THEN /\ session' = NoSession
                /\ lresp' = "400_code"
           ELSE IF result # "ok"
           THEN /\ session' = NoSession
                /\ lresp' = IF result = "error" THEN "400_token" ELSE "500"
           ELSE IF email = <<>>
           THEN /\ session' = NoSession
                /\ lresp' = "400_email"
           ELSE IF ~EndsWith(Lower(email), <<"@">> \o AllowedDomain)
           THEN /\ session' = NoSession
                /\ lresp' = "403"
           ELSE /\ session' = [UserSession(session, claims) EXCEPT !.auth_state = session.auth_state]
                /\ lresp' = "302_next"
    /\ UNCHANGED <<presented, apc, handlerRan, aresp, issued>>
    /\ UNCHANGED <<requestVars, streamVars, pdfVars, nameVars, catVars, askVars>>

\* callback(): state, code, token exchange, email and domain are tested in this
\* order; every failure clears the session.
CB_Callback(received, code, result, claims) ==
    /\ lastCb' = [received |-> received, code |-> code, result |-> result,
                  claims |-> claims, expected |-> session.auth_state,
                  spent |-> spent, hadUser |-> session.user # "absent"]
    /\ spent' = spent \cup {received}
    /\ LET expected_state == session.auth_state
           email == GetEmailFromClaims(claims)
       IN  IF expected_state = 0 \/ expected_state # received
           THEN /\ session' = NoSession
                /\ lresp' = "400_state"
           ELSE IF ~code
           THEN /\ session' = NoSession
                /\ lresp' = "400_code"
           ELSE IF result # "ok"
           THEN /\ session' = NoSession
                /\ lresp' = IF result = "error" THEN "400_token" ELSE "500"
           ELSE IF email = <<>>
           THEN /\ session' = NoSession
                /\ lresp' = "400_email"
           ELSE IF ~EndsWith(Lower(email), <<"@">> \o AllowedDomain)
           THEN /\ session' = NoSession
                /\ lresp' = "403"
           ELSE /\ session' = UserSession(session, claims)
                /\ lresp' = "302_next"
    /\ UNCHANGED <<presented, apc, handlerRan, aresp, issued>>
    /\ UNCHANGED <<requestVars, streamVars, pdfVars, nameVars, catVars, askVars>>

\* logout()
LO_Logout ==
    /\ session # NoSession
    /\ session' = NoSession
    /\ lresp' = "302_logout"
    /\ UNCHANGED <<presented, apc, handlerRan, aresp, issued, lastCb, spent>>
    /\ UNCHANGED <<requestVars, streamVars, pdfVars, nameVars, catVars, askVars>>

NextLogin ==
    \/ L_Login
    \* result: acquire_token_by_authorization_code gives back something that is
    \* no dict, a dict with "error", or a dict without.
    \/ \E received \in 0 .. MaxLogins, code \in BOOLEAN,
          result \in {"nondict", "error", "ok"}, claims \in CallbackClaims :
            CB_Callback(received, code, result, claims)
    \/ LO_Logout

InitLogin ==
    /\ store = [d \in Docs |-> [f \in Artifacts |-> "good"]]
    /\ CacheStart
    /\ StreamStart
    /\ PdfStart
    /\ NameStart
    /\ idA = DocX
    /\ idB = DocY
    /\ CatStart
    /\ container = <<>>
    /\ presented \in {NoSession, LoggedIn}
    /\ AuthStart
    /\ info = KnownDocInfo
    /\ AskStart

SpecLogin == InitLogin /\ [][NextLogin]_vars

\* ---- PREVIOUSPROJECTATTEMPT/app.py: ask (the whole-response path)
\* Catalog entries a question can be about: A/0/x, A/1/y and A.
DocInfos ==
    { DocEntry(<<"A", "/", "0", "/", "x">>),
      DocEntry(<<"A", "/", "1", "/", "y">>),
      DocEntry(<<"A">>) }

\* pages_raw = [d.metadata.get("page") for d in docs if "page" in d.metadata]
AskPagesRaw(docs) ==
    {docs[i].page : i \in {j \in 1 .. Len(docs) : docs[j].page # NoPageKey}}

\* sorted(set(pages_raw)) raises TypeError when None meets a number.
AskSortRaises(docs) ==
    \E a \in AskPagesRaw(docs), b \in AskPagesRaw(docs) : a = NonePage /\ b # NonePage

\* pages_display of ask
AskPagesDisplay(docs) ==
    LET unique_pages_raw == SortedSeq(AskPagesRaw(docs))
    IN  IF unique_pages_raw # <<>> /\ unique_pages_raw[1] = 0
        THEN [i \in 1 .. Len(unique_pages_raw) |-> unique_pages_raw[i] + 1]
        ELSE unique_pages_raw

\* A first page that is never shifted.
AskFirstPageRaw(docs) ==
    LET unique_pages_raw == SortedSeq(AskPagesRaw(docs))
    IN  IF unique_pages_raw # <<>> THEN unique_pages_raw[1] ELSE 1

\* first_page_for_viewer of ask
AskFirstPage(docs) ==
    LET unique_pages_raw == SortedSeq(AskPagesRaw(docs))
    IN  IF unique_pages_raw # <<>> /\ unique_pages_raw[1] = 0
        THEN unique_pages_raw[1] + 1
        ELSE IF unique_pages_raw # <<>> THEN unique_pages_raw[1] ELSE 1

\* ask() for the document, question and retrieved chunks of the answer request;
\* llmOk tells whether get_llm().invoke(prompt) returns.
ASK_Ask(llmOk) ==
    /\ req.received
    /\ spc # "idle"
    /\ astatus = "none"
    /\ LET docs == chunks
           pdf_url == UrlFor(info.pdf_rel_path)
       IN  IF ~req.hasDoc \/ Strip(req.question) = <<>>
           THEN /\ astatus' = "302"
                /\ UNCHANGED rendered
           ELSE IF ~req.known
           THEN /\ astatus' = "400"
                /\ UNCHANGED rendered
           ELSE IF ~req.vsOk
           THEN /\ astatus' = "500"
                /\ UNCHANGED rendered
           ELSE IF docs = <<>>
           THEN /\ astatus' = "200"
                /\ rendered' = [pages |-> <<>>, first_page |-> 1, pdf_url |-> pdf_url,
                                doc_label |-> info.label]
           ELSE IF AskSortRaises(docs) \/ ~llmOk
           THEN /\ astatus' = "500"
                /\ UNCHANGED rendered
           ELSE /\ astatus' = "200"
                /\ rendered' = [pages |-> AskPagesDisplay(docs),
                                first_page |-> AskFirstPage(docs),
                                pdf_url |-> pdf_url, doc_label |-> info.label]
    /\ UNCHANGED info
    /\ UNCHANGED <<requestVars, streamVars, pdfVars, nameVars, catVars, authVars>>

\* The same question put to ask_stream and to ask.
NextAsk ==
    \/ \E c \in Chunks : Retrievable(c)
    \/ \E hasDoc \in BOOLEAN, q \in Questions, known \in BOOLEAN, vsOk \in BOOLEAN :
          AS_Request(hasDoc, q, known, vsOk)
    \/ AS_EmptyMeta
    \/ AS_EmptyToken
    \/ AS_Meta
    \/ \E fs \in FragSeqs : AS_Invoke(fs)
    \/ AS_Chunk
    \/ AS_LlmFail
    \/ \E llmOk \in BOOLEAN : ASK_Ask(llmOk)

InitAsk ==
    /\ store = [d \in Docs |-> [f \in Artifacts |-> "good"]]
    /\ CacheStart
    /\ StreamStart
    /\ PdfStart
    /\ NameStart
    /\ idA = DocX
    /\ idB = DocY
    /\ CatStart
    /\ container = <<>>
    /\ presented = NoSession
    /\ AuthStart
    /\ info \in DocInfos
    /\ AskStart

SpecAsk == InitAsk /\ [][NextAsk]_vars

\* ------------------------------------------------------------------ claims
TypeOK ==
    /\ store \in [Docs -> [Artifacts -> BlobStates]]
    /\ disk \in [Dirs -> [Artifacts -> FileStates]]
    /\ dirs \subseteq Dirs
    /\ \A t \in Threads : calls[t] \in 0 .. MaxCalls /\ ndl[t] \in 0 .. 2 /\ got[t] \in 0 .. 2
    /\ \A i \in 1 .. Len(out) : out[i].type \in {"meta", "token"}

\* C1 (SpecManager): concurrent get_vectorstore calls for one doc_id under a cold
\* cache run exactly one download+load sequence, and every call returns the same
\* index object: a doc is loaded at most once, and two calls that returned an
\* index for the same doc returned the same one.
C1_SingleMaterialization ==
    \A d \in Docs :
        /\ nLoaded[d] <= 1
        /\ \A t, u \in Threads :
              (doc[t] = d /\ doc[u] = d /\ ret[t] # 0 /\ ret[u] # 0) => ret[t] = ret[u]

\* C2 (SpecSearch): a search that treats the document as cached (goes to the load
\* without a download pass) finds both index.faiss and index.pkl in its local
\* directory.  Stated for runs without concurrent requests.
C2_CachedOnlyWithBothFiles ==
    \A t \in Threads :
        (~overlap /\ pc[t] = "s_load" /\ got[t] = 0)
            => IsCachedOnDisk(SafeDocId(doc[t]))

\* C3 (SpecManager): after a materialization was aborted before both files were
\* completely written, no later request loads a half-written artifact: whenever a
\* request is about to load, no file of the directory is partially written.
\* Stated for runs without concurrent requests.
C3_NeverLoadsHalfWritten ==
    \A t \in Threads :
        (~overlap /\ pc[t] = "gv_load")
            => \A f \in Artifacts : disk[LocalDirForDoc(doc[t])][f] # "partial"

\* C4 (SpecManager): when the download pass of a request has returned without
\* failing, having downloaded something, the document is cached on disk (both
\* files exist).  Stated for runs without concurrent requests.
C4_EnsuredIsCached ==
    \A t \in Threads :
        (~overlap /\ pc[t] = "gv_load" /\ got[t] > 0)
            => IsCachedOnDisk(LocalDirForDoc(doc[t]))

\* C5 (SpecManager): a request that begins after an ensure_local of the same doc
\* has completed starts no blob download, and the doc is cached when its own
\* ensure_local step is over.  Stated for runs without concurrent requests.
C5_SecondEnsureDownloadsNothing ==
    \A t \in Threads :
        (~overlap /\ after[t] /\ pc[t] # "idle")
            => /\ ndl[t] = 0
               /\ pc[t] = "gv_load" => IsCachedOnDisk(LocalDirForDoc(doc[t]))

\* C6 (SpecManager): a file that is completely present on disk is not downloaded
\* again and stays unchanged in every step.  Stated for runs without concurrent
\* requests.
C6_PresentFileUntouched ==
    [][~overlap' =>
          \A dir \in Dirs, f \in Artifacts :
              disk[dir][f] \in {"good", "corrupt"} => disk'[dir][f] = disk[dir][f]]_vars

\* C7 (SpecManager): the in-memory cache never evicts or replaces an entry: once
\* a doc has a loaded index in _mem_cache, every step leaves that entry as it is.
C7_MemCacheEntryStable ==
    [][\A d \in Docs : memCache[d] # 0 => memCache'[d] = memCache[d]]_vars

\* C8 (SpecManager): a request for a doc with no artifacts in the object store
\* does not fail: it ends with the empty result.  Stated for runs without
\* concurrent requests.
C8_NoArtifactsGivesEmptyResult ==
    \A t \in Threads :
        (/\ ~overlap
         /\ pc[t] = "idle"
         /\ outcome[t] # "none"
         /\ \A f \in Artifacts : store[doc[t]][f] = "absent")
            => outcome[t] = "empty"

\* C9 (SpecManager): a failed load of a corrupt or unreadable artifact never
\* leaves the query path as an unhandled error.
C9_LoadFailureNeverPropagates ==
    \A t \in Threads : outcome[t] # "raised_corrupt"

\* C10 (SpecGenerate): in every answer stream the first record is a metadata
\* record carrying pages, pdf_url, first_page and doc_label, and no other record
\* of the stream is a metadata record (so no token precedes it).
C10_MetaRecordFirst ==
    out # <<>> =>
        /\ out[1].type = "meta"
        /\ {"pages", "pdf_url", "first_page", "doc_label"} \subseteq out[1].keys
        /\ \A i \in 2 .. Len(out) : out[i].type # "meta"

\* C11 (SpecAskStream): an answer stream that ended normally (the model
\* invocation did not fail) holds at least one token record after the metadata
\* record, whatever fragments the model streamed.
C11_TokenAfterMeta ==
    (spc = "done" /\ status = "200")
        => \E i \in 2 .. Len(out) : out[i].type = "token"

\* C12 (SpecGenerate): when retrieval returned zero chunks, the finished stream
\* is a metadata record with pages = [] and first_page = 1 followed by exactly
\* one "no relevant information" token record, and the chat model was not invoked.
C12_EmptyRetrieval ==
    (spc = "done" /\ status = "200" /\ chunks = <<>>)
        => /\ Len(out) = 2
           /\ out[1].type = "meta" /\ out[1].pages = <<>> /\ out[1].first_page = 1
           /\ out[2] = TokenRecord("no_info")
           /\ llmCalls = 0

\* C13 (SpecGenerate): a request without doc_id or with a blank question (empty
\* or whitespace-only) is rejected as a client error and nothing else happens
\* for it: no retrieval step is entered, no record is streamed, no model call.
C13_BlankRejectedBeforeWork ==
    (req.received /\ (~req.hasDoc \/ Strip(req.question) = <<>>))
        => /\ status = "400"
           /\ spc = "done"
           /\ out = <<>>
           /\ llmCalls = 0

\* C14 (SpecGenerate): a well-formed request for a doc_id that is not in the
\* catalog ends as a client error; no materialization or retrieval step is
\* entered and nothing is streamed for it.
C14_UnknownDocumentRejected ==
    (req.received /\ req.hasDoc /\ Strip(req.question) # <<>> /\ ~req.known)
        => /\ status = "400"
           /\ spc = "done"
           /\ out = <<>>

\* Some component of the path (split at either separator) is "..".
HasParentSegment(p) ==
    \E i \in 1 .. Len(p) - 1 :
        /\ p[i] = "." /\ p[i + 1] = "."
        /\ (i = 1 \/ p[i - 1] \in {"/", "\\"})
        /\ (i + 1 = Len(p) \/ p[i + 2] \in {"/", "\\"})

\* C15 (SpecPdf): a PDF request whose path holds a parent-directory segment or
\* starts with a separator is answered 400 "Invalid PDF path." and no
\* object-store operation (exists, stream) has been issued for it.
C15_TraversalRejected ==
    (ppc # "idle" /\ (HasParentSegment(path) \/ Head(path) \in {"/", "\\"}))
        => /\ pstatus = "400"
           /\ ppc = "done"
           /\ storeOps = <<>>

\* A request for "..\\a" (parent segment behind a backslash) has been rejected.
C15_Witness ==
    /\ ppc = "done"
    /\ path = <<".", ".", "\\", "a">>
    /\ pstatus = "400"
    /\ storeOps = <<>>

\* A slash-delimited id of two or more non-empty segments.
IsDocumentId(s) ==
    LET segs == SplitPath(s)
    IN  Len(segs) >= 2 /\ \A i \in 1 .. Len(segs) : segs[i] # <<>>

\* C17 (SpecNames): the local directories computed for two distinct DocumentIds
\* are distinct.
C17_DirCollisionFree ==
    (impl # "none" /\ idA # idB /\ IsDocumentId(idA) /\ IsDocumentId(idB))
        => dirA # dirB

\* C18 (SpecNames): the directory SearchService.search computes for a doc_id
\* string lies strictly below the cache root, ".." ids included.
C18_DirInsideCacheRoot ==
    impl = "search" => InsideCacheRoot(dirA)

\* Number of metadata records in the stream so far.
MetaCount == Cardinality({i \in 1 .. Len(out) : out[i].type = "meta"})

\* C16 (SpecAskStream): the chat model is invoked at most once per answer and
\* only after the metadata record was emitted; after a failed invocation the
\* stream holds exactly one metadata record, the invocation count stays at one
\* and no further record is emitted.
C16_ModelInvokedOnceAfterMeta ==
    /\ [](/\ llmCalls <= 1
          /\ llmCalls = 1 => (out # <<>> /\ out[1].type = "meta")
          /\ spc = "aborted" => (llmCalls = 1 /\ MetaCount = 1))
    /\ [][spc = "aborted" => (out' = out /\ llmCalls' = llmCalls)]_vars

\* The invocation failed after the metadata record and one token were emitted.
C16_Witness ==
    /\ spc = "aborted"
    /\ llmCalls = 1
    /\ Len(out) = 2
    /\ out[1].type = "meta"
    /\ out[2].type = "token"

\* Page metadata values of the retrieved chunks, when every chunk carries a number.
AllNumbered == chunks # <<>> /\ \A i \in 1 .. Len(chunks) : chunks[i].page \in 0 .. MaxPage
MetaPages == {chunks[i].page : i \in 1 .. Len(chunks)}

C20_OneBasedUnchanged ==
    (out # <<>> /\ out[1].type = "meta" /\ AllNumbered /\ 0 \notin MetaPages)
        => out[1].pages = SortedSeq(MetaPages)

\* The page numbers of the emitted metadata record.
EmittedPages == {out[1].pages[i] : i \in 1 .. Len(out[1].pages)}
\* Chunk i has no usable page metadata (key absent, or its value is None).
NoPageMeta(i) == chunks[i].page \in {NoPageKey, NonePage}

\* C21 (SpecGenerate): the pages of the metadata record are strictly ascending
\* (sorted, no duplicates) and the record carries a first_page equal to the
\* smallest of them, or 1 when the list is empty.
C21_PagesSortedFirstIsMin ==
    (out # <<>> /\ out[1].type = "meta")
        => /\ \A i \in 1 .. Len(out[1].pages) - 1 : out[1].pages[i] < out[1].pages[i + 1]
           /\ "first_page" \in out[1].keys
           /\ out[1].first_page = IF out[1].pages = <<>> THEN 1 ELSE out[1].pages[1]

\* C22 (SpecAskStream): a retrieved chunk without page metadata whose text holds
\* a "Page n" marker (n a 1-based page number) is cited as page n, not incremented.
C22_TextPageNotIncremented ==
    (out # <<>> /\ out[1].type = "meta")
        => \A i \in 1 .. Len(chunks) :
              (NoPageMeta(i) /\ chunks[i].textPage >= 1)
                  => chunks[i].textPage \in EmittedPages

\* C23 (SpecAskStream): a retrieved chunk without page metadata and without a
\* page marker in its text is cited as page 1, not left out.
C23_DefaultPageOne ==
    (out # <<>> /\ out[1].type = "meta")
        => \A i \in 1 .. Len(chunks) :
              (NoPageMeta(i) /\ chunks[i].textPage = NonePage) => 1 \in EmittedPages

\* C24 (SpecAskStream): a request that is well-formed, names a known document,
\* got its index and retrieved chunks is answered with a stream (status 200),
\* whatever page metadata the chunks carry.
C24_PageAnomalyNeverFails ==
    (/\ req.received /\ req.hasDoc /\ Strip(req.question) # <<>>
     /\ req.known /\ req.vsOk
     /\ chunks # <<>>)
        => status = "200"

\* What a catalog entry says, whichever builder made it.
EntryId(e) == IF "id" \in DOMAIN e THEN e.id ELSE e.doc_id
EntryLabel(e) == IF "label" \in DOMAIN e THEN e.label ELSE e.name
EntryPdf(e) == IF "pdf_rel_path" \in DOMAIN e THEN e.pdf_rel_path ELSE e.blob_path
\* The <category, year, entry> triples of a catalog.
Entries(index) ==
    UNION {{<<index[i].category, index[i].year, index[i].docs[j]>> :
               j \in 1 .. Len(index[i].docs)} : i \in 1 .. Len(index)}
\* Positions <<bucket, place>> of a catalog that hold an entry with this id.
PlacesOf(index, id) ==
    {<<i, j>> \in (1 .. Len(index)) \X (1 .. MaxKeys) :
        j <= Len(index[i].docs) /\ EntryId(index[i].docs[j]) = id}
\* The ids of the listed keys <prefix><id>/index.faiss with a non-empty id.
IndexedIds ==
    {DocIdOfBlob(container[i]) : i \in {j \in 1 .. Len(container) :
        /\ StartsWith(container[j], VsPrefix)
        /\ EndsWith(container[j], FaissSuffix)
        /\ DocIdOfBlob(container[j]) # <<>>}}
\* A catalog the thread's caller got from a build that is over.
Served(t) == cpc[t] = "idle" /\ cseen[t].built

\* C25 (SpecHierarchy): a catalog returned by a build holds, for every listed
\* key <prefix><id>/index.faiss with a non-empty id, exactly one entry with that
\* id, under category = segment 0 and year = segment 1 of the id ("root" when
\* the id has one segment) and with pdf_relative_path = id + ".pdf"; and it
\* holds no entry for anything else.
C25_CatalogGrouping ==
    \A t \in Threads : Served(t) =>
        LET index == cseen[t].idx IN
        /\ \A id \in IndexedIds :
              /\ Cardinality(PlacesOf(index, id)) = 1
              /\ \A pl \in PlacesOf(index, id) :
                    /\ index[pl[1]].category = SplitPath(id)[1]
                    /\ index[pl[1]].year =
                          IF Len(SplitPath(id)) >= 2 THEN SplitPath(id)[2] ELSE <<"root">>
                    /\ EntryPdf(index[pl[1]].docs[pl[2]]) = id \o <<".pdf">>
        /\ \A e \in Entries(index) : EntryId(e[3]) \in IndexedIds

\* C26 (SpecHierarchy): in a catalog returned by a build, the entries of every
\* (category, year) bucket are sorted by label, whatever the listing order was.
C26_BucketsSortedByLabel ==
    \A t \in Threads : Served(t) =>
        \A i \in 1 .. Len(cseen[t].idx) :
            LET docs == cseen[t].idx[i].docs
            IN  \A j, k \in 1 .. Len(docs) :
                    j < k => ~StrLess(EntryLabel(docs[k]), EntryLabel(docs[j]))

\* Entries a complete scan of the listing yields for the current app's catalog.
RECURSIVE ScanAll(_, _)
ScanAll(hierarchy, names) ==
    IF names = <<>> THEN hierarchy ELSE ScanAll(AddPdf(hierarchy, Head(names)), Tail(names))

\* C27 (SpecHierarchy): a build never returns a catalog made from only the keys
\* listed before a listing failure: a returned catalog holds the entries of
\* every listed PDF.
C27_NoTruncatedCatalog ==
    \A t \in Threads : Served(t) =>
        Entries(cseen[t].idx) = Entries(ScanAll(EmptyIndex, ListPrefix(PdfPrefix)))

\* The complete, sorted catalog of the listing, built in one piece.
RECURSIVE BuildAll(_, _)
BuildAll(index, names) ==
    IF names = <<>> THEN SortBuckets(index) ELSE BuildAll(AddDoc(index, Head(names)), Tail(names))

\* C28 (SpecCatalog): whatever catalog get_doc_index hands to a caller, and
\* whatever the cache holds, is the complete sorted catalog of the listing,
\* under every interleaving of builds and readers.
C28_ReadersSeeCompleteCatalog ==
    /\ catCache.built => catCache.idx = BuildAll(EmptyIndex, ListPrefix(VsPrefix))
    /\ \A t \in Threads :
          cseen[t].built => cseen[t].idx = BuildAll(EmptyIndex, ListPrefix(VsPrefix))

\* A reader holds the catalog of two documents while another thread's build of
\* it is half-way through the listing.
C28_Witness ==
    \E t, u \in Threads :
        /\ cseen[t].built
        /\ Cardinality(Entries(cseen[t].idx)) = 2
        /\ cpc[u] = "di_list"
        /\ Cardinality(Entries(cidx[u])) = 1
        /\ ctodo[u] # <<>>

\* The next step of thread t's get_vectorstore call, as far as its own code goes.
OwnStep(t) ==
    \/ GV_MemCheck(t)
    \/ GV_DiskCheck(t)
    \/ DP_List(t)
    \/ DP_Next(t)
    \/ DP_Write(t)
    \/ GV_Load(t)
    \/ GV_Store(t)

\* C29 (SpecManager): a get_vectorstore call is never held up by a call that is
\* materializing another doc_id: while another thread is inside a call for a
\* different document, the thread's own next step can be taken, and a thread
\* that has a request left can enter a call for a different document.
C29_DifferentDocsIndependent ==
    \A t, u \in Threads :
        (t # u /\ pc[u] # "idle") =>
            /\ (pc[t] # "idle" /\ doc[t] # doc[u]) => ENABLED OwnStep(t)
            /\ (pc[t] = "idle" /\ calls[t] < MaxCalls)
                  => \A d \in Docs \ {doc[u]} : ENABLED GV_Call(t, d)

\* One thread is writing a blob of A/x while another has just entered a call
\* for A/y.
C29_Witness ==
    \E t, u \in Threads :
        /\ pc[u] = "dp_write" /\ doc[u] = DocX
        /\ pc[t] = "gv_mem" /\ doc[t] = DocY

\* The session holds a user dict with claims whose email (the first usable of
\* preferred_username, email, upn), compared without regard to case, is
\* something followed by "@" and the allowed domain.
HoldsAllowedEmail(sess) ==
    /\ sess.user = "dict"
    /\ sess.hasClaims
    /\ LET e == Lower(GetEmailFromClaims(sess))
       IN  \E k \in 1 .. Len(e) :
               e[k] = "@" /\ SubSeq(e, k + 1, Len(e)) = AllowedDomain

\* C30 (SpecAuth): once the wrapper of domain_required has handled a request,
\* the handler was run exactly when the session it arrived with holds a user
\* with an allowed email; in every other case the session has been cleared.
C30_HandlerOnlyForAllowedDomain ==
    apc = "done" =>
        /\ handlerRan <=> HoldsAllowedEmail(presented)
        /\ ~HoldsAllowedEmail(presented) => session = NoSession

\* A user whose first claim is "u@xd" (the domain only ends like the allowed
\* one) was turned away with 403 and the session cleared.
C30_Witness ==
    /\ apc = "done"
    /\ presented.hasClaims
    /\ presented.preferred_username = [isStr |-> TRUE, s |-> <<"u", "@", "x", "d">>]
    /\ aresp = "403"
    /\ ~handlerRan
    /\ session = NoSession

\* The last request to an /auth route was a callback.
LastWasCallback == lresp \notin {"none", "302_idp", "302_logout"}

\* The claims name an email that, compared without regard to case, is something
\* followed by "@" and the allowed domain.
ClaimsNameAllowedEmail(claims) ==
    LET e == Lower(GetEmailFromClaims(claims))
    IN  \E k \in 1 .. Len(e) : e[k] = "@" /\ SubSeq(e, k + 1, Len(e)) = AllowedDomain

\* The last callback carried the state a login had stored, a code, and its
\* token exchange gave an email of the allowed domain.
CallbackInOrder ==
    /\ lastCb.received \in 1 .. issued
    /\ lastCb.received = lastCb.expected
    /\ lastCb.code
    /\ lastCb.result = "ok"
    /\ ClaimsNameAllowedEmail(lastCb.claims)

C32_ResultPagesAtLeastOne ==
    (out # <<>> /\ out[1].type = "meta") =>
        /\ \A i \in 1 .. Len(out[1].pages) : out[1].pages[i] \in Nat /\ out[1].pages[i] >= 1
        /\ \A i \in 1 .. Len(chunks) :
              \E j \in 1 .. Len(out[1].pages) :
                  out[1].pages[j] =
                      IF chunks[i].page >= 0 THEN chunks[i].page + 1
                      ELSE IF chunks[i].textPage >= 1 THEN chunks[i].textPage
                      ELSE 1

\* The results of a chunk with "Page 0" in its text and of a chunk with neither
\* a metadata page nor a marker came back as page 1.
C32_Witness ==
    /\ out # <<>>
    /\ out[1].type = "meta"
    /\ out[1].pages = <<1>>
    /\ Len(chunks) = 2
    /\ chunks[1] = [page |-> NoPageKey, textPage |-> 0]
    /\ chunks[2] = [page |-> NonePage, textPage |-> NonePage]

\* C33 (SpecManager): a get_vectorstore call that ends with an exception returns
\* no index and leaves the cache as it was; the cache changes only in the step
\* in which a call returns an index it has loaded, and then only in the entry
\* of that call's doc_id.
C33_FailedCallLeavesCache ==
    /\ [](\A t \in Threads : (pc[t] = "idle" /\ outcome[t] # "ok") => ret[t] = 0)
    /\ [][/\ \A t \in Threads :
                (pc[t] # "idle" /\ pc'[t] = "idle" /\ outcome'[t] # "ok")
                    => memCache' = memCache
          /\ memCache' # memCache =>
                \E t \in Threads :
                    /\ pc[t] = "gv_store"
                    /\ outcome'[t] = "ok"
                    /\ ret'[t] = vs[t]
                    /\ vs[t] # 0
                    /\ memCache' = [memCache EXCEPT ![doc[t]] = vs[t]]]_vars

\* A call for one document ended with a load error while the other document is
\* cached: the failed document has no entry.
C33_Witness ==
    \E t \in Threads :
        /\ pc[t] = "idle"
        /\ outcome[t] \in {"raised_nofile", "raised_corrupt"}
        /\ memCache[doc[t]] = 0
        /\ \E d \in Docs \ {doc[t]} : memCache[d] # 0

\* C34 (SpecAsk): when ask has rendered its result and ask_stream has emitted
\* its metadata record for the same document, question and retrieved chunks,
\* the two carry the same pages, first_page, pdf_url and doc_label.
C34_AskAndStreamAgree ==
    (astatus = "200" /\ out # <<>> /\ out[1].type = "meta") =>
        /\ rendered.pages = out[1].pages
        /\ rendered.first_page = out[1].first_page
        /\ rendered.pdf_url = out[1].pdf_url
        /\ rendered.doc_label = out[1].doc_label

\* Both paths answered for the document A/1/y and chunks of the 0-based pages 2
\* and 0: pages [1, 3], first page 1.
C34_Witness ==
    /\ astatus = "200"
    /\ out # <<>>
    /\ out[1].type = "meta"
    /\ info.id = <<"A", "/", "1", "/", "y">>
    /\ Len(chunks) = 2
    /\ chunks[1].page = 2
    /\ chunks[2].page = 0
    /\ rendered.pages = <<1, 3>>
    /\ rendered.first_page = 1
    /\ rendered.doc_label = <<"y">>
    /\ rendered.pdf_url = <<"/pdf/", "A", "/", "1", "/", "y", ".pdf">>
====
